---------------------------- MODULE Spec2Model ----------------------------
(***************************************************************************)
(* Verification model of the Heidi Calls voicemail triage core:            *)
(*   - emergency escalation   (app/services/emergency_escalation.py)       *)
(*   - smart routing          (app/services/smart_routing.py)              *)
(*   - PII detection          (app/utils/pii_filter.py)                    *)
(*   - the triage pipeline    (app/services/triage_service.py)             *)
(* Text is a sequence of one-character strings; Python's None is PyNone.   *)
(***************************************************************************)
EXTENDS Integers, Sequences, FiniteSets, TLC

VARIABLES
    escalation_log,   \* EmergencyEscalation.escalation_log (singleton state)
    now,              \* the wall clock read by datetime.utcnow()
    esc_args,         \* arguments of the last direct process_escalation call
    esc_result,       \* the EscalationResult it returned
    route_args,       \* arguments of a direct route_voicemail call
    route_result,     \* the RoutingResult it returned (NotRouted before)
    location_result,  \* what extract_location(transcript) returned
    doctor_result,    \* what extract_doctor(transcript) returned
    pii_text,         \* the text handed to the PII filter
    pii_done,         \* the filter operations already run on pii_text
    pii_matches,      \* what detect_pii(pii_text) returned
    redact_result,    \* what redact(pii_text) returned
    reredact_result,  \* what redact returned for the redacted text
    ext_text,         \* the transcript handed to the entity extractors
    ext_done,         \* the extractor and matching calls already made
    ext_medicare,  \* what extract_medicare(ext_text) returned
    ext_phone,     \* what _extract_phone_from_text(ext_text) returned
    match_arg,        \* the argument of the match_patient call
    match_result,     \* the PatientMatchResult it returned
    tri_pc,           \* where the triage call is: idle, awaiting_llm, returned, raised
    tri_count,        \* triage calls started so far
    tri_voicemail,    \* the VoicemailInput of the call
    tri_id,           \* its voicemail_id
    tri_redaction,    \* (redacted_transcript, pii_matches, is_pii_safe) of step 2
    tri_request,      \* the user message sent to the classifier
    tri_llm_calls,    \* _call_llm invocations of the call
    tri_response,     \* ai_response, the classifier's answer
    tri_raised,       \* the exception triage raised (PyNone if none)
    tri_record,       \* the TriagedVoicemail it returned
    voicemail_store,  \* routers/voicemail.py: voicemail_id -> stored TriagedVoicemail
    store_ops,        \* handler calls made on stored records
    calls,            \* the triage calls in flight at once: call -> its locals
    mock_text,        \* the user message handed to the rule-based classifier
    mock_result       \* the parsed answer of the rule-based classifier

esc_vars == <<escalation_log, now, esc_args, esc_result>>

route_vars == <<route_args, route_result, location_result, doctor_result>>

pii_vars == <<pii_text, pii_done, pii_matches, redact_result, reredact_result>>

ext_vars == <<ext_text, ext_done, ext_medicare, ext_phone, match_arg,
              match_result>>

tri_vars == <<tri_pc, tri_count, tri_voicemail, tri_id, tri_redaction, tri_request,
              tri_llm_calls, tri_response, tri_raised, tri_record>>

store_vars == <<voicemail_store, store_ops>>

conc_vars == <<calls>>

mock_vars == <<mock_text, mock_result>>

vars == <<escalation_log, now, esc_args, esc_result, route_args, route_result,
          location_result, doctor_result,
          pii_text, pii_done, pii_matches, redact_result, reredact_result,
          ext_text, ext_done, ext_medicare, ext_phone, match_arg, match_result,
          tri_pc, tri_count, tri_voicemail, tri_id, tri_redaction, tri_request,
          tri_llm_calls, tri_response, tri_raised, tri_record,
          voicemail_store, store_ops, calls, mock_text, mock_result>>

\* Python's None, as a value distinct from every string the program uses.
PyNone == "<None>"

\* Python's None where a timestamp (an integer clock value) is expected.
NoTimestamp == -1

\* Python truthiness of an Optional[str].
Truthy(x) == x # PyNone /\ x # ""

\* F applied to the value of x: x is evaluated once, before F's body, the way
\* Python evaluates an argument or the right-hand side of an assignment.
Let(x, F(_)) == CHOOSE r \in {F(v) : v \in {x}} : TRUE

-----------------------------------------------------------------------------
(* Bounds of the model *)

MaxClock == 1        \* the clock takes the values 0..MaxClock
MaxLog == 2          \* escalation_log is explored up to this length
MaxUrgency == 6      \* urgency levels passed to the escalation: 0..MaxUrgency
MaxPhrases == 2      \* a routed transcript is built from 1..MaxPhrases phrases
MaxPiiPhrases == 2   \* a filtered text is built from 1..MaxPiiPhrases phrases
MaxRequests == 2     \* triage calls made one after the other
MaxExtPhrases == 2   \* an extractor's transcript is built from 1..MaxExtPhrases phrases
MaxStoreOps == 2     \* handler calls on stored records (reminder, acknowledge, update)
MaxCuePhrases == 2   \* a text with cue phrases is built from 1..MaxCuePhrases phrases
MaxCalls == 2        \* triage calls in flight at the same time
MaxMockPhrases == 2  \* a classified text is built from 1..MaxMockPhrases phrases

-----------------------------------------------------------------------------
(* Text: Python str as a TLA+ string; s[i] is SubSeq(s, i, i) *)

UpperLetters == "ABCDEFGHIJKLMNOPQRSTUVWXYZ"

LowerLetters == "abcdefghijklmnopqrstuvwxyz"

CharAt(s, i) == SubSeq(s, i, i)

\* str.lower() of one ASCII character.
LowerMap ==
    [c \in {CharAt(UpperLetters, i) : i \in 1..26} |->
        CharAt(LowerLetters, CHOOSE i \in 1..26 : CharAt(UpperLetters, i) = c)]

LowerChar(c) == IF c \in DOMAIN LowerMap THEN LowerMap[c] ELSE c

RECURSIVE ToLower(_)
\* str.lower(), halving the text so that long texts stay shallow.
ToLower(s) ==
    IF Len(s) <= 1 THEN LowerChar(s)
    ELSE LET half == Len(s) \div 2
         IN ToLower(SubSeq(s, 1, half)) \o ToLower(SubSeq(s, half + 1, Len(s)))

\* Python's `needle in hay` for strings.
Contains(hay, needle) ==
    \E i \in 1..(Len(hay) - Len(needle) + 1) :
        SubSeq(hay, i, i + Len(needle) - 1) = needle

Min(S) == CHOOSE m \in S : \A n \in S : m <= n

-----------------------------------------------------------------------------
(* Python's re module: a backtracking matcher over pattern trees.          *)
(* Ends(node, s, pos, ic) lists, in the order the backtracking engine      *)
(* tries them, the offsets at which a match of node starting at offset pos *)
(* of s can end; the first one that lets the rest of the pattern match is  *)
(* the one Python takes. Offsets are Python's: 0..Len(s). ic is            *)
(* re.IGNORECASE.                                                          *)

Digits == {"0", "1", "2", "3", "4", "5", "6", "7", "8", "9"}

UpperSet == {CharAt(UpperLetters, i) : i \in 1..26}

LowerSet == {CharAt(LowerLetters, i) : i \in 1..26}

\* \s (the whitespace the transcripts use)
Space == {" ", "\t", "\n"}

\* \w
WordChars == Digits \cup UpperSet \cup LowerSet \cup {"_"}

\* The characters of the default redaction_char, a three-character string
\* (U+00E2, U+2013, U+02C6), written with ASCII stand-ins. The first and the
\* third are word characters to \b and \w; the second is not.
GlyphA == "^"

GlyphDash == "~"

GlyphMod == "$"

redaction_char == GlyphA \o GlyphDash \o GlyphMod

\* \w, including the letters of redaction_char
WordCharsAll == WordChars \cup {GlyphA, GlyphMod}

UpperMap ==
    [c \in LowerSet |->
        CharAt(UpperLetters, CHOOSE i \in 1..26 : CharAt(LowerLetters, i) = c)]

UpperChar(c) == IF c \in DOMAIN UpperMap THEN UpperMap[c] ELSE c

\* Pattern tree constructors
Cls(S) == [t |-> "set", chars |-> S, neg |-> FALSE]        \* [...]
NotCls(S) == [t |-> "set", chars |-> S, neg |-> TRUE]      \* [^...] and .
Lit(str) == [t |-> "lit", str |-> str]                     \* literal text
Cat(parts) == [t |-> "cat", parts |-> parts]               \* concatenation
Alt(parts) == [t |-> "alt", parts |-> parts]               \* a|b|c
Rep(of, lo, hi) == [t |-> "rep", of |-> of, lo |-> lo, hi |-> hi]  \* greedy {lo,hi}
Opt(of) == Rep(of, 0, 1)                                   \* ?
Inf == -1                                                  \* no upper limit
Plus(of) == Rep(of, 1, Inf)                                \* +
Star(of) == Rep(of, 0, Inf)                                \* *
WB == [t |-> "wb"]                                         \* \b
D == Cls(Digits)                                           \* \d
Ws == Cls(Space)                                           \* \s

IsWordAt(s, i) == i >= 1 /\ i <= Len(s) /\ CharAt(s, i) \in WordCharsAll

\* \b holds at offset pos: exactly one of the neighbours is a word character.
AtWordBoundary(s, pos) == IsWordAt(s, pos) # IsWordAt(s, pos + 1)

InSet(c, node, ic) ==
    LET in == \/ c \in node.chars
              \/ ic /\ (LowerChar(c) \in node.chars \/ UpperChar(c) \in node.chars)
    IN in # node.neg

\* str occurs in s at offset pos; with ic, characters are compared lower-cased,
\* one by one up to the first that differs.
LitMatches(s, pos, str, ic) ==
    /\ pos + Len(str) <= Len(s)
    /\ IF ic
       THEN \A i \in 1..Len(str) :
                LowerChar(CharAt(s, pos + i)) = LowerChar(CharAt(str, i))
       ELSE SubSeq(s, pos + 1, pos + Len(str)) = str

RECURSIVE Uniq(_, _)
\* seq without its repeated elements, first occurrences kept; acc is the
\* prefix already kept.
Uniq(seq, acc) ==
    IF seq = <<>> THEN acc
    ELSE IF \E k \in 1..Len(acc) : acc[k] = Head(seq)
         THEN Uniq(Tail(seq), acc)
         ELSE Uniq(Tail(seq), Append(acc, Head(seq)))

RECURSIVE Ends(_, _, _, _)
RECURSIVE EndsCat(_, _, _, _, _)
RECURSIVE EndsAlt(_, _, _, _, _)
RECURSIVE EndsEach(_, _, _, _, _)

Ends(node, s, pos, ic) ==
    CASE node.t = "set" ->
            IF pos < Len(s) /\ InSet(CharAt(s, pos + 1), node, ic)
            THEN <<pos + 1>> ELSE <<>>
      [] node.t = "lit" ->
            IF LitMatches(s, pos, node.str, ic) THEN <<pos + Len(node.str)>> ELSE <<>>
      [] node.t = "wb" ->
            IF AtWordBoundary(s, pos) THEN <<pos>> ELSE <<>>
      [] node.t = "cat" -> Uniq(EndsCat(node.parts, 1, s, pos, ic), <<>>)
      [] node.t = "alt" -> Uniq(EndsAlt(node.parts, 1, s, pos, ic), <<>>)
      [] node.t = "rep" ->
            IF node.hi = 0 THEN <<pos>>
            ELSE LET rest == Rep(node.of,
                                 IF node.lo > 0 THEN node.lo - 1 ELSE 0,
                                 IF node.hi = Inf THEN Inf ELSE node.hi - 1)
                     once == SelectSeq(Ends(node.of, s, pos, ic), LAMBDA e : e > pos)
                     more == EndsEach(once, 1, rest, s, ic)
                 IN Uniq(IF node.lo = 0 THEN Append(more, pos) ELSE more, <<>>)

\* parts[k..] matched one after the other from pos
EndsCat(parts, k, s, pos, ic) ==
    IF k > Len(parts) THEN <<pos>>
    ELSE LET first == Ends(parts[k], s, pos, ic)
         IN IF k = Len(parts) THEN first
            ELSE EndsEach(first, 1, Cat(SubSeq(parts, k + 1, Len(parts))), s, ic)

\* the alternatives parts[k..], tried in order
EndsAlt(parts, k, s, pos, ic) ==
    IF k > Len(parts) THEN <<>>
    ELSE Ends(parts[k], s, pos, ic) \o EndsAlt(parts, k + 1, s, pos, ic)

\* node matched from each of starts[k..], in order
EndsEach(starts, k, node, s, ic) ==
    IF k > Len(starts) THEN <<>>
    ELSE Ends(node, s, starts[k], ic) \o EndsEach(starts, k + 1, node, s, ic)

\* pattern.match at offset pos: the end offset, or -1
MatchAt(pattern, s, pos, ic) ==
    LET ends == Ends(pattern, s, pos, ic)
    IN IF ends = <<>> THEN -1 ELSE ends[1]

RECURSIVE FindIter(_, _, _, _)
\* pattern.finditer(s) from offset pos: the <<start, end>> spans, leftmost
\* first and non-overlapping.
FindIter(pattern, s, pos, ic) ==
    LET starts == {p \in pos..Len(s) : MatchAt(pattern, s, p, ic) # -1}
    IN IF starts = {} THEN <<>>
       ELSE LET p == CHOOSE q \in starts : \A r \in starts : q <= r
                e == MatchAt(pattern, s, p, ic)
            IN <<<<p, e>>>> \o
               FindIter(pattern, s, IF e > p THEN e ELSE p + 1, ic)

-----------------------------------------------------------------------------
(* pii_filter.py: the compiled patterns *)

Letters == UpperSet \cup LowerSet

\* [\s-] and [-\s]
SepSD == Cls(Space \cup {"-"})

\* [-.\s]
SepDDS == Cls(Space \cup {"-", "."})

\* \b(\d{4}[\s-]?\d{5}[\s-]?\d{1,2})\b
medicare_pattern ==
    Cat(<<WB, Rep(D, 4, 4), Opt(SepSD), Rep(D, 5, 5), Opt(SepSD), Rep(D, 1, 2), WB>>)

\* (?:\+?61[-.\s]?|0)(?:4\d{2}[-.\s]?\d{3}[-.\s]?\d{3}
\*   |[2-9]\d{1}[-.\s]?\d{4}[-.\s]?\d{4}|\(\d{2}\)[-.\s]?\d{4}[-.\s]?\d{4})
phone_pattern ==
    Cat(<<Alt(<<Cat(<<Opt(Lit("+")), Lit("61"), Opt(SepDDS)>>), Lit("0")>>),
          Alt(<<Cat(<<Lit("4"), Rep(D, 2, 2), Opt(SepDDS), Rep(D, 3, 3),
                      Opt(SepDDS), Rep(D, 3, 3)>>),
                Cat(<<Cls(Digits \ {"0", "1"}), Rep(D, 1, 1), Opt(SepDDS),
                      Rep(D, 4, 4), Opt(SepDDS), Rep(D, 4, 4)>>),
                Cat(<<Lit("("), Rep(D, 2, 2), Lit(")"), Opt(SepDDS),
                      Rep(D, 4, 4), Opt(SepDDS), Rep(D, 4, 4)>>)>>)>>)

\* \b[A-Za-z0-9._%+-]+@[A-Za-z0-9.-]+\.[A-Z|a-z]{2,}\b
email_pattern ==
    Cat(<<WB, Plus(Cls(Letters \cup Digits \cup {".", "_", "%", "+", "-"})),
          Lit("@"), Plus(Cls(Letters \cup Digits \cup {".", "-"})),
          Lit("."), Rep(Cls(Letters \cup {"|"}), 2, Inf), WB>>)

\* (?:January|...|December)
MonthName ==
    Alt(<<Lit("January"), Lit("February"), Lit("March"), Lit("April"), Lit("May"),
          Lit("June"), Lit("July"), Lit("August"), Lit("September"),
          Lit("October"), Lit("November"), Lit("December")>>)

\* [-/]
DateSep == Cls({"-", "/"})

\* The three dob_patterns; the first is compiled with re.IGNORECASE.
dob_cue_pattern ==
    Cat(<<Alt(<<Cat(<<Lit("date"), Plus(Ws), Lit("of"), Plus(Ws), Lit("birth")>>),
                Lit("DOB"),
                Cat(<<Lit("d.o.b"), Opt(Lit("."))>>),
                Cat(<<Lit("born"), Plus(Ws), Lit("on")>>),
                Lit("birthday")>>),
          Star(Ws),
          Opt(Alt(<<Cat(<<Lit("is"), Plus(Ws)>>), Cat(<<Lit(":"), Star(Ws)>>)>>)),
          Alt(<<Cat(<<Rep(D, 1, 2), DateSep, Rep(D, 1, 2), DateSep, Rep(D, 2, 4)>>),
                Cat(<<MonthName, Plus(Ws), Rep(D, 1, 2), Opt(Lit(",")), Plus(Ws),
                      Rep(D, 4, 4)>>),
                Cat(<<Rep(D, 1, 2), Plus(Ws), MonthName, Plus(Ws), Rep(D, 4, 4)>>)>>)>>)

\* \b(\d{2}/\d{2}/\d{4})\b
dob_slash_pattern ==
    Cat(<<WB, Rep(D, 2, 2), Lit("/"), Rep(D, 2, 2), Lit("/"), Rep(D, 4, 4), WB>>)

\* \b(\d{4}-\d{2}-\d{2})\b
dob_iso_pattern ==
    Cat(<<WB, Rep(D, 4, 4), Lit("-"), Rep(D, 2, 2), Lit("-"), Rep(D, 2, 2), WB>>)

dob_patterns ==
    <<[re |-> dob_cue_pattern, ic |-> TRUE],
      [re |-> dob_slash_pattern, ic |-> FALSE],
      [re |-> dob_iso_pattern, ic |-> FALSE]>>

\* \b(?:\d{4}[-\s]?){3,4}\d{1,4}\b
credit_card_pattern ==
    Cat(<<WB, Rep(Cat(<<Rep(D, 4, 4), Opt(SepSD)>>), 3, 4), Rep(D, 1, 4), WB>>)

\* \b\d{3}[-\s]?\d{3}[-\s]?\d{3}\b  (compiled, but no detection pass uses it)
tfn_pattern ==
    Cat(<<WB, Rep(D, 3, 3), Opt(SepSD), Rep(D, 3, 3), Opt(SepSD), Rep(D, 3, 3), WB>>)

\* [A-Z][a-z]+
CapWord == Cat(<<Cls(UpperSet), Plus(Cls(LowerSet))>>)

\* \b\d+\s+[A-Z][a-z]+(?:\s+[A-Z][a-z]+)*\s+(?:Street|St|...|Circuit)\b, IGNORECASE
address_pattern ==
    Cat(<<WB, Plus(D), Plus(Ws), CapWord, Star(Cat(<<Plus(Ws), CapWord>>)), Plus(Ws),
          Alt(<<Lit("Street"), Lit("St"), Lit("Road"), Lit("Rd"), Lit("Avenue"),
                Lit("Ave"), Lit("Drive"), Lit("Dr"), Lit("Lane"), Lit("Ln"),
                Lit("Court"), Lit("Ct"), Lit("Place"), Lit("Pl"), Lit("Crescent"),
                Lit("Cres"), Lit("Boulevard"), Lit("Blvd"), Lit("Way"),
                Lit("Close"), Lit("Circuit")>>),
          WB>>)

\* (?:Mrs?\.?|Ms\.?|Dr\.?|Miss)
TitleAlt ==
    Alt(<<Cat(<<Lit("Mr"), Opt(Lit("s")), Opt(Lit("."))>>),
          Cat(<<Lit("Ms"), Opt(Lit("."))>>),
          Cat(<<Lit("Dr"), Opt(Lit("."))>>),
          Lit("Miss")>>)

\* (?:my\s+name\s+is|this\s+is|I'?m|I\s+am|name'?s|speaking\s+is|patient\s+name:?)\s+
\*   ([A-Z][a-z]+(?:\s+[A-Z][a-z]+){1,3}), IGNORECASE
name_intro_pattern ==
    Cat(<<Alt(<<Cat(<<Lit("my"), Plus(Ws), Lit("name"), Plus(Ws), Lit("is")>>),
                Cat(<<Lit("this"), Plus(Ws), Lit("is")>>),
                Cat(<<Lit("I"), Opt(Lit("'")), Lit("m")>>),
                Cat(<<Lit("I"), Plus(Ws), Lit("am")>>),
                Cat(<<Lit("name"), Opt(Lit("'")), Lit("s")>>),
                Cat(<<Lit("speaking"), Plus(Ws), Lit("is")>>),
                Cat(<<Lit("patient"), Plus(Ws), Lit("name"), Opt(Lit(":"))>>)>>),
          Plus(Ws), CapWord, Rep(Cat(<<Plus(Ws), CapWord>>), 1, 3)>>)

\* \b(?:Mrs?\.?|Ms\.?|Dr\.?|Miss)\s+([A-Z][a-z]+(?:\s+[A-Z][a-z]+){0,2})\b
name_title_pattern ==
    Cat(<<WB, TitleAlt, Plus(Ws), CapWord, Rep(Cat(<<Plus(Ws), CapWord>>), 0, 2), WB>>)

name_patterns ==
    <<[re |-> name_intro_pattern, ic |-> TRUE],
      [re |-> name_title_pattern, ic |-> FALSE]>>

-----------------------------------------------------------------------------
(* pii_filter.py: redaction policies *)

RECURSIVE RepeatStr(_, _)
\* Python's str * n (empty for n <= 0)
RepeatStr(str, n) == IF n <= 0 THEN "" ELSE str \o RepeatStr(str, n - 1)

RECURSIVE DigitsOf(_)
\* re.sub(r'\D', '', value)
DigitsOf(value) ==
    IF value = "" THEN ""
    ELSE (IF Head(value) \in Digits THEN Head(value) ELSE "") \o DigitsOf(Tail(value))

\* Python's s[-n:] for n > 0
LastChars(str, n) == IF Len(str) <= n THEN str ELSE SubSeq(str, Len(str) - n + 1, Len(str))

\* Python's s[:n]
FirstChars(str, n) == IF Len(str) <= n THEN str ELSE SubSeq(str, 1, n)

\* Offset of the first occurrence of the one-character string c in str, or -1.
Find(str, c) ==
    LET hits == {i \in 1..Len(str) : CharAt(str, i) = c}
    IN IF hits = {} THEN -1 ELSE Min(hits) - 1

_redact_medicare(value) ==
    LET digits == DigitsOf(value)
    IN FirstChars(digits, 2) \o RepeatStr(redaction_char, Len(digits) - 2)

\* Variant of _redact_phone that keeps the last 4 digits.
_redact_phone_keep_four(value) ==
    LET digits == DigitsOf(value)
    IN RepeatStr(redaction_char, Len(digits) - 4) \o LastChars(digits, 4)

_redact_phone(value) ==
    LET digits == DigitsOf(value)
    IN RepeatStr(redaction_char, Len(digits) - 3) \o LastChars(digits, 3)

_redact_email(value) ==
    LET at == Find(value, "@")
    IN IF at >= 0
       THEN LET local == SubSeq(value, 1, at)
                domain == SubSeq(value, at + 2, Len(value))
            IN FirstChars(local, 1) \o RepeatStr(redaction_char, Len(local) - 1)
                 \o "@" \o domain
       ELSE RepeatStr(redaction_char, Len(value))

\* . (any character but a newline)
AnyChar == NotCls({"\n"})

\* The cue patterns of _redact_dob, each used with re.IGNORECASE.
dob_redact_cues ==
    <<Cat(<<Lit("date"), Plus(Ws), Lit("of"), Plus(Ws), Lit("birth"), Star(Ws),
            Opt(Cat(<<Lit("is"), Star(Ws)>>))>>),
      Cat(<<Lit("DOB"), Star(Ws), Opt(Lit(":")), Star(Ws)>>),
      Cat(<<Lit("born"), Plus(Ws), Lit("on"), Star(Ws)>>)>>

RECURSIVE SubCueToken(_, _, _, _)
\* re.sub(cue + r'.*', r'\1' + token, value, flags=re.IGNORECASE) from offset pos
SubCueToken(cue, token, value, pos) ==
    IF pos > Len(value) THEN ""
    ELSE LET cue_end == MatchAt(cue, value, pos, TRUE)
         IN IF cue_end = -1
            THEN (IF pos < Len(value) THEN CharAt(value, pos + 1) ELSE "")
                    \o SubCueToken(cue, token, value, pos + 1)
            ELSE LET e == MatchAt(Cat(<<cue, Star(AnyChar)>>), value, pos, TRUE)
                 IN SubSeq(value, pos + 1, cue_end) \o token
                      \o (IF e >= Len(value) THEN ""
                          ELSE SubCueToken(cue, token, value, IF e > pos THEN e ELSE pos + 1))

_redact_dob(value) ==
    LET hits == {k \in 1..Len(dob_redact_cues) :
                    MatchAt(dob_redact_cues[k], value, 0, TRUE) # -1}
    IN IF hits = {} THEN "[DOB REDACTED]"
       ELSE SubCueToken(dob_redact_cues[Min(hits)], "[DOB REDACTED]", value, 0)

_redact_credit_card(value) ==
    LET digits == DigitsOf(value)
    IN RepeatStr(redaction_char, Len(digits) - 4) \o LastChars(digits, 4)

\* The prefixes of _redact_name, each matched with re.IGNORECASE.
name_prefixes ==
    <<Cat(<<Lit("my"), Plus(Ws), Lit("name"), Plus(Ws), Lit("is"), Plus(Ws)>>),
      Cat(<<Lit("this"), Plus(Ws), Lit("is"), Plus(Ws)>>),
      Cat(<<Lit("I"), Opt(Lit("'")), Lit("m"), Plus(Ws)>>),
      Cat(<<Lit("I"), Plus(Ws), Lit("am"), Plus(Ws)>>),
      Cat(<<Lit("name"), Opt(Lit("'")), Lit("s"), Plus(Ws)>>),
      Cat(<<TitleAlt, Plus(Ws)>>)>>

_redact_name(value) ==
    LET hits == {k \in 1..Len(name_prefixes) :
                    MatchAt(name_prefixes[k], value, 0, TRUE) # -1}
    IN IF hits = {} THEN "[NAME REDACTED]"
       ELSE SubSeq(value, 1, MatchAt(name_prefixes[Min(hits)], value, 0, TRUE))
              \o "[NAME REDACTED]"

_redact_generic(value, keep_last) ==
    IF keep_last > 0
    THEN RepeatStr(redaction_char, Len(value) - keep_last) \o LastChars(value, keep_last)
    ELSE RepeatStr(redaction_char, Len(value))

-----------------------------------------------------------------------------
(* pii_filter.py: detection, overlap resolution, redaction *)

\* The redaction policy detect_pii applies to a match of each PIIType.
RedactedValue(pii_type, value) ==
    CASE pii_type = "medicare_number" -> _redact_medicare(value)
      [] pii_type = "phone_number" -> _redact_phone(value)
      [] pii_type = "email" -> _redact_email(value)
      [] pii_type = "date_of_birth" -> _redact_dob(value)
      [] pii_type = "credit_card" -> _redact_credit_card(value)
      [] pii_type = "address" -> _redact_generic(value, 0)
      [] pii_type = "name" -> _redact_name(value)

PIIMatch(pii_type, text, span) ==
    LET value == SubSeq(text, span[1] + 1, span[2])
    IN [pii_type |-> pii_type,
        original_value |-> value,
        start_pos |-> span[1],
        end_pos |-> span[2],
        redacted_value |-> RedactedValue(pii_type, value)]

RECURSIVE MatchesOf(_, _, _)
MatchesOf(pii_type, text, spans) ==
    IF spans = <<>> THEN <<>>
    ELSE <<PIIMatch(pii_type, text, Head(spans))>>
           \o MatchesOf(pii_type, text, Tail(spans))

\* One detection pass: a PIIMatch for every match of pattern.finditer(text).
Pass(pii_type, pattern, ic, text) ==
    MatchesOf(pii_type, text, FindIter(pattern, text, 0, ic))

\* if 13 <= len(digits) <= 19
CardDigitCountOk(m) ==
    LET n == Len(DigitsOf(m.original_value))
    IN 13 <= n /\ n <= 19

RECURSIVE KeepCards(_, _)
KeepCards(found, k) ==
    IF k > Len(found) THEN <<>>
    ELSE (IF CardDigitCountOk(found[k]) THEN <<found[k]>> ELSE <<>>)
           \o KeepCards(found, k + 1)

\* The credit-card pass keeps a match only if it has 13 to 19 digits.
CreditCardPass(text) ==
    KeepCards(Pass("credit_card", credit_card_pattern, FALSE, text), 1)

\* Variant of Candidates that scans for phone numbers first.
Candidates_phone_first(text) ==
    Pass("phone_number", phone_pattern, FALSE, text)
    \o Pass("medicare_number", medicare_pattern, FALSE, text)
    \o Pass("email", email_pattern, FALSE, text)
    \o Pass("date_of_birth", dob_patterns[1].re, dob_patterns[1].ic, text)
    \o Pass("date_of_birth", dob_patterns[2].re, dob_patterns[2].ic, text)
    \o Pass("date_of_birth", dob_patterns[3].re, dob_patterns[3].ic, text)
    \o CreditCardPass(text)
    \o Pass("address", address_pattern, TRUE, text)
    \o Pass("name", name_patterns[1].re, name_patterns[1].ic, text)
    \o Pass("name", name_patterns[2].re, name_patterns[2].ic, text)

\* The candidates, in the order detect_pii appends them.
Candidates(text) ==
    Pass("medicare_number", medicare_pattern, FALSE, text)
    \o Pass("phone_number", phone_pattern, FALSE, text)
    \o Pass("email", email_pattern, FALSE, text)
    \o Pass("date_of_birth", dob_patterns[1].re, dob_patterns[1].ic, text)
    \o Pass("date_of_birth", dob_patterns[2].re, dob_patterns[2].ic, text)
    \o Pass("date_of_birth", dob_patterns[3].re, dob_patterns[3].ic, text)
    \o CreditCardPass(text)
    \o Pass("address", address_pattern, TRUE, text)
    \o Pass("name", name_patterns[1].re, name_patterns[1].ic, text)
    \o Pass("name", name_patterns[2].re, name_patterns[2].ic, text)

\* The sort key of _deduplicate_matches: (start_pos, -(end_pos - start_pos)).
KeyLess(a, b) ==
    \/ a.start_pos < b.start_pos
    \/ a.start_pos = b.start_pos
         /\ -(a.end_pos - a.start_pos) < -(b.end_pos - b.start_pos)

\* sorted(matches, key=lambda m: m.start_pos, reverse=True)
StartGreater(a, b) == a.start_pos > b.start_pos

\* The two orders the module sorts by.
Before(order, a, b) ==
    IF order = "dedup" THEN KeyLess(a, b) ELSE StartGreater(a, b)

RECURSIVE InsertSorted(_, _, _)
\* sorted with m put after every element that does not come after it
\* (a stable insertion).
InsertSorted(m, sorted, order) ==
    IF sorted = <<>> THEN <<m>>
    ELSE IF Before(order, m, Head(sorted)) THEN <<m>> \o sorted
         ELSE <<Head(sorted)>> \o InsertSorted(m, Tail(sorted), order)

RECURSIVE SortedBy(_, _)
\* Python's sorted(): stable.
SortedBy(seq, order) ==
    IF seq = <<>> THEN <<>>
    ELSE Let(SortedBy(SubSeq(seq, 1, Len(seq) - 1), order),
             LAMBDA sorted : InsertSorted(seq[Len(seq)], sorted, order))

RECURSIVE Sweep(_, _, _)
\* The greedy sweep of _deduplicate_matches over the sorted candidates.
Sweep(sorted, last_end, result) ==
    IF sorted = <<>> THEN result
    ELSE LET match == Head(sorted)
         IN IF match.start_pos >= last_end
            THEN Sweep(Tail(sorted), match.end_pos, Append(result, match))
            ELSE Sweep(Tail(sorted), last_end, result)

_deduplicate_matches_keep_all(matches) == SortedBy(matches, "dedup")

\* Variant that sweeps the candidates in the order they were found.
_deduplicate_matches_unsorted(matches) == Sweep(matches, -1, <<>>)

_deduplicate_matches(matches) ==
    IF matches = <<>> THEN <<>>
    ELSE Let(SortedBy(matches, "dedup"), LAMBDA sorted : Sweep(sorted, -1, <<>>))

detect_pii(text) == Let(Candidates(text), _deduplicate_matches)

RECURSIVE ApplyRedactions(_, _)
ApplyRedactions(redacted_text, matches) ==
    IF matches = <<>> THEN redacted_text
    ELSE LET match == Head(matches)
         IN Let(SubSeq(redacted_text, 1, match.start_pos)
                  \o match.redacted_value
                  \o SubSeq(redacted_text, match.end_pos + 1, Len(redacted_text)),
                LAMBDA replaced : ApplyRedactions(replaced, Tail(matches)))

\* Variant that applies the replacements from the lowest start offset up.
RedactWith_lowest_first(text, matches) ==
    [redacted_text |-> ApplyRedactions(text, matches),
     matches |-> matches,
     is_pii_safe |-> TRUE]

RedactWith(text, matches) ==
    IF matches = <<>>
    THEN [redacted_text |-> text, matches |-> <<>>, is_pii_safe |-> TRUE]
    ELSE [redacted_text |->
              Let(SortedBy(matches, "reverse_start"),
                  LAMBDA sorted_matches : ApplyRedactions(text, sorted_matches)),
          matches |-> matches,
          is_pii_safe |-> TRUE]

\* redact returns (redacted_text, matches, is_pii_safe).
redact(text) == Let(detect_pii(text), LAMBDA matches : RedactWith(text, matches))

-----------------------------------------------------------------------------
(* emergency_escalation.py *)

manager_phone == "+61400000001"

emergency_script == "EMERGENCY_SCRIPT_BILINGUAL"

should_escalate_no_intent_check(urgency_level, intent) ==
    IF urgency_level >= 5 THEN TRUE
    ELSE IF urgency_level >= 4 THEN TRUE
    ELSE FALSE

should_escalate(urgency_level, intent) ==
    IF urgency_level >= 5 THEN TRUE
    ELSE IF urgency_level >= 4 /\ intent = "Emergency" THEN TRUE
    ELSE FALSE

\* Appends the "sms" log entry; the simulated transport always succeeds.
send_sms_to_manager(log, voicemail_id, patient_phone, timestamp) ==
    [log |-> Append(log, [type |-> "sms", recipient |-> manager_phone,
                          voicemail_id |-> voicemail_id,
                          timestamp |-> timestamp,
                          status |-> "sent_simulated"]),
     ret |-> TRUE]

\* Appends the "voice_alert" log entry; the simulated transport always succeeds.
trigger_voice_alert(log, voicemail_id, patient_phone, timestamp) ==
    [log |-> Append(log, [type |-> "voice_alert", recipient |-> patient_phone,
                          voicemail_id |-> voicemail_id,
                          timestamp |-> timestamp,
                          status |-> "sent_simulated"]),
     ret |-> TRUE]

NotTriggeredResult ==
    [escalation_triggered |-> FALSE,
     intervention_status |-> "None",
     timestamp_escalated |-> NoTimestamp,
     emergency_script |-> PyNone,
     sms_sent_to |-> PyNone,
     actions_taken |-> <<>>]

process_escalation_voice_unguarded(log, voicemail_id, urgency_level, intent, patient_phone, t) ==
    IF ~should_escalate(urgency_level, intent)
    THEN [log |-> log, result |-> NotTriggeredResult]
    ELSE
      LET sms == send_sms_to_manager(log, voicemail_id,
                     IF Truthy(patient_phone) THEN patient_phone ELSE "Unknown", t)
          voice == trigger_voice_alert(sms.log, voicemail_id, patient_phone, t)
      IN [log |-> voice.log,
          result |-> [escalation_triggered |-> TRUE,
                      intervention_status |-> "Voice_Alert_Sent",
                      timestamp_escalated |-> t,
                      emergency_script |-> emergency_script,
                      sms_sent_to |-> manager_phone,
                      actions_taken |-> <<"SMS_Alert_Sent_To_Manager",
                                          "Voice_Alert_Sent_To_Patient">>]]

process_escalation_stale_fields(log, voicemail_id, urgency_level, intent, patient_phone, t) ==
    IF ~should_escalate(urgency_level, intent)
    THEN [log |-> log,
          result |-> [NotTriggeredResult EXCEPT !.timestamp_escalated = t]]
    ELSE
      LET sms == send_sms_to_manager(log, voicemail_id,
                     IF Truthy(patient_phone) THEN patient_phone ELSE "Unknown", t)
      IN [log |-> sms.log,
          result |-> [escalation_triggered |-> TRUE,
                      intervention_status |-> "None",
                      timestamp_escalated |-> t,
                      emergency_script |-> emergency_script,
                      sms_sent_to |-> manager_phone,
                      actions_taken |-> <<"SMS_Alert_Sent_To_Manager">>]]

\* process_escalation returns the EscalationResult and the log it leaves.
\* (The summary argument only reaches the printed SMS text.)
process_escalation(log, voicemail_id, urgency_level, intent, patient_phone, t) ==
    IF ~should_escalate(urgency_level, intent)
    THEN [log |-> log, result |-> NotTriggeredResult]
    ELSE
      LET sms == send_sms_to_manager(log, voicemail_id,
                     IF Truthy(patient_phone) THEN patient_phone ELSE "Unknown", t)
          sms_sent == sms.ret
          actions1 == IF sms_sent THEN <<"SMS_Alert_Sent_To_Manager">> ELSE <<>>
          voice == IF Truthy(patient_phone)
                   THEN trigger_voice_alert(sms.log, voicemail_id, patient_phone, t)
                   ELSE [log |-> sms.log, ret |-> FALSE]
          voice_sent == voice.ret
          actions2 == IF Truthy(patient_phone) /\ voice_sent
                      THEN Append(actions1, "Voice_Alert_Sent_To_Patient")
                      ELSE actions1
          intervention_status ==
              IF voice_sent /\ sms_sent THEN "Voice_Alert_Sent"
              ELSE IF sms_sent THEN "SMS_Alert_Only"
              ELSE "Escalation_Failed"
      IN [log |-> voice.log,
          result |-> [escalation_triggered |-> TRUE,
                      intervention_status |-> intervention_status,
                      timestamp_escalated |-> t,
                      emergency_script |-> emergency_script,
                      sms_sent_to |-> manager_phone,
                      actions_taken |-> actions2]]

-----------------------------------------------------------------------------
(* Inputs of direct escalation calls *)

VoicemailIds == {"vm_1", "vm_2"}

Urgencies == 0..MaxUrgency

\* Intent labels passed to the escalation: valid labels, a case variant of
\* Emergency, and the default None.
EscIntents == {"Emergency", "emergency", "Booking", "Other", PyNone}

Phones == {PyNone, "", "0412345678"}

NoCall == [voicemail_id |-> PyNone, urgency_level |-> 0, intent |-> PyNone,
           patient_phone |-> PyNone]

EscInit ==
    /\ escalation_log = <<>>
    /\ now = 0
    /\ esc_args = NoCall
    /\ esc_result = NotTriggeredResult

\* Time passes.
Tick ==
    /\ now < MaxClock
    /\ now' = now + 1
    /\ UNCHANGED <<escalation_log, esc_args, esc_result>>

\* A caller invokes emergency_escalation.process_escalation(...).
CallProcessEscalation(vid, u, intent, phone) ==
    LET r == process_escalation(escalation_log, vid, u, intent, phone, now)
    IN /\ Len(r.log) <= MaxLog
       /\ escalation_log' = r.log
       /\ esc_args' = [voicemail_id |-> vid, urgency_level |-> u,
                       intent |-> intent, patient_phone |-> phone]
       /\ esc_result' = r.result
       /\ UNCHANGED now

-----------------------------------------------------------------------------
(* smart_routing.py *)

CLINIC_LOCATIONS == <<
    [id |-> "harbour", name |-> "Harbour Medical Centre",
     keywords |-> <<"harbour", "harbor", "waterfront", "bay">>],
    [id |-> "sunset", name |-> "Sunset Family Practice",
     keywords |-> <<"sunset", "west", "evening">>],
    [id |-> "central", name |-> "Central City Clinic",
     keywords |-> <<"central", "city", "downtown", "cbd">>],
    [id |-> "northside", name |-> "Northside Health Hub",
     keywords |-> <<"north", "northside", "upper">>] >>

KNOWN_DOCTORS == <<
    [name |-> "Dr. Sarah Chen", location |-> "harbour",
     aliases |-> <<"dr chen", "sarah chen", "chen">>],
    [name |-> "Dr. Michael Wong", location |-> "sunset",
     aliases |-> <<"dr wong", "michael wong", "wong">>],
    [name |-> "Dr. Emma Thompson", location |-> "central",
     aliases |-> <<"dr thompson", "emma thompson", "thompson">>],
    [name |-> "Dr. James Nguyen", location |-> "northside",
     aliases |-> <<"dr nguyen", "james nguyen", "nguyen">>],
    [name |-> "Dr. Lisa Patel", location |-> "harbour",
     aliases |-> <<"dr patel", "lisa patel", "patel">>] >>

\* Medicare number -> location id
PATIENT_LOCATION_HISTORY ==
    [m \in {"2345678901", "3456789012", "4567890123", "5678901234", "6789012345"} |->
        CASE m = "2345678901" -> "harbour"
          [] m = "3456789012" -> "sunset"
          [] m = "4567890123" -> "central"
          [] m = "5678901234" -> "northside"
          [] m = "6789012345" -> "harbour"]

\* Indices of the directory entries one of whose aliases occurs in text_lower.
AliasHits(directory, field, text_lower) ==
    {i \in 1..Len(directory) :
        \E k \in 1..Len(directory[i][field]) :
            Contains(text_lower, directory[i][field][k])}

extract_location(text) ==
    LET hits == AliasHits(CLINIC_LOCATIONS, "keywords", ToLower(text))
    IN IF hits = {} THEN PyNone ELSE CLINIC_LOCATIONS[Min(hits)].id

get_location_name(location_id) ==
    LET hits == {i \in 1..Len(CLINIC_LOCATIONS) : CLINIC_LOCATIONS[i].id = location_id}
    IN IF hits = {} THEN PyNone ELSE CLINIC_LOCATIONS[Min(hits)].name

\* Returns <<doctor_name, associated_location>>.
\* Variant that returns the last directory entry with an alias in the text.
extract_doctor_last_entry(text) ==
    LET hits == AliasHits(KNOWN_DOCTORS, "aliases", ToLower(text))
        last == CHOOSE i \in hits : \A j \in hits : j <= i
    IN IF hits = {} THEN <<PyNone, PyNone>>
       ELSE <<KNOWN_DOCTORS[last].name, KNOWN_DOCTORS[last].location>>

extract_doctor(text) ==
    LET hits == AliasHits(KNOWN_DOCTORS, "aliases", ToLower(text))
    IN IF hits = {} THEN <<PyNone, PyNone>>
       ELSE <<KNOWN_DOCTORS[Min(hits)].name, KNOWN_DOCTORS[Min(hits)].location>>

\* Confidence values are kept in hundredths: 95 is 0.95.
RoutingResult(loc, conf, reason, doctor, mentioned) ==
    [assigned_location |-> loc,
     location_name |-> IF loc = PyNone THEN PyNone ELSE get_location_name(loc),
     confidence |-> conf,
     routing_reason |-> reason,
     mentioned_doctor |-> doctor,
     mentioned_location |-> mentioned]

\* Variant of route_voicemail without the patient-history step.
route_voicemail_skip_history(transcript, medicare_number) ==
    LET mentioned_location == extract_location(transcript)
        doctor == extract_doctor(transcript)
    IN IF Truthy(mentioned_location)
       THEN RoutingResult(mentioned_location, 95, "location_mentioned", PyNone,
                          get_location_name(mentioned_location))
       ELSE IF Truthy(doctor[2])
       THEN RoutingResult(doctor[2], 85, "doctor_association", doctor[1], PyNone)
       ELSE RoutingResult(PyNone, 0, "unassigned", doctor[1], PyNone)

\* Variant of route_voicemail that consults the patient history first.
route_voicemail_history_first(transcript, medicare_number) ==
    LET mentioned_location == extract_location(transcript)
        doctor == extract_doctor(transcript)
    IN IF Truthy(medicare_number) /\ medicare_number \in DOMAIN PATIENT_LOCATION_HISTORY
       THEN RoutingResult(PATIENT_LOCATION_HISTORY[medicare_number], 75,
                          "patient_history", PyNone, PyNone)
       ELSE IF Truthy(mentioned_location)
       THEN RoutingResult(mentioned_location, 95, "location_mentioned", PyNone,
                          get_location_name(mentioned_location))
       ELSE IF Truthy(doctor[2])
       THEN RoutingResult(doctor[2], 85, "doctor_association", doctor[1], PyNone)
       ELSE RoutingResult(PyNone, 0, "unassigned", doctor[1], PyNone)

route_voicemail(transcript, medicare_number) ==
    LET mentioned_location == extract_location(transcript)
        doctor == extract_doctor(transcript)
    IN IF Truthy(mentioned_location)
       THEN RoutingResult(mentioned_location, 95, "location_mentioned", PyNone,
                          get_location_name(mentioned_location))
       ELSE IF Truthy(doctor[2])
       THEN RoutingResult(doctor[2], 85, "doctor_association", doctor[1], PyNone)
       ELSE IF Truthy(medicare_number) /\ medicare_number \in DOMAIN PATIENT_LOCATION_HISTORY
       THEN RoutingResult(PATIENT_LOCATION_HISTORY[medicare_number], 75,
                          "patient_history", PyNone, PyNone)
       ELSE RoutingResult(PyNone, 0, "unassigned", doctor[1], PyNone)

\* re.search: the span of the leftmost match, or <<>>.
Search(pattern, s, ic) ==
    Let(FindIter(pattern, s, 0, ic),
        LAMBDA spans : IF spans = <<>> THEN <<>> ELSE Head(spans))

\* \b(\d{4})\s*(\d{5})\s*(\d{1,2})\b
medicare_spaced_pattern ==
    Cat(<<WB, Rep(D, 4, 4), Star(Ws), Rep(D, 5, 5), Star(Ws), Rep(D, 1, 2), WB>>)

\* \b(\d{10,11})\b
medicare_continuous_pattern == Cat(<<WB, Rep(D, 10, 11), WB>>)

_mask_medicare(medicare) ==
    IF Len(medicare) >= 10
    THEN "XXXX XXXX X" \o LastChars(medicare, 2)
    ELSE "XXXX XXXX XXX"

MedicareResult(number, masked, valid) ==
    [medicare_number |-> number, medicare_masked |-> masked, is_valid |-> valid]

NoMedicare == MedicareResult(PyNone, PyNone, FALSE)

RECURSIVE FirstValidMedicare(_, _)
\* The loop over re.findall's results: the groups of a match joined are the
\* digits of the match; the first with 10 or 11 digits that starts with one of
\* 2..6 is returned, "" if there is none.
FirstValidMedicare(text, spans) ==
    IF spans = <<>> THEN ""
    ELSE Let(DigitsOf(SubSeq(text, Head(spans)[1] + 1, Head(spans)[2])),
             LAMBDA digits :
                IF 10 <= Len(digits) /\ Len(digits) <= 11
                    /\ Head(digits) \in {"2", "3", "4", "5", "6"}
                THEN digits
                ELSE FirstValidMedicare(text, Tail(spans)))

\* Variant of MedicareIn that gives up when the first match is not valid.
MedicareIn_first_candidate_only(text, pattern) ==
    Let(FindIter(pattern, text, 0, FALSE),
        LAMBDA spans : FirstValidMedicare(text, IF spans = <<>> THEN <<>>
                                                ELSE <<Head(spans)>>))

\* The first valid number among the matches of one pattern.
MedicareIn(text, pattern) ==
    Let(FindIter(pattern, text, 0, FALSE),
        LAMBDA spans : FirstValidMedicare(text, spans))

extract_medicare(text) ==
    Let(MedicareIn(text, medicare_spaced_pattern), LAMBDA spaced :
        IF spaced # "" THEN MedicareResult(spaced, _mask_medicare(spaced), TRUE)
        ELSE Let(MedicareIn(text, medicare_continuous_pattern), LAMBDA continuous :
            IF continuous # ""
            THEN MedicareResult(continuous, _mask_medicare(continuous), TRUE)
            ELSE NoMedicare))

PatientMatchResult(matched, patient_id, confidence, previous_location) ==
    [matched |-> matched, patient_id |-> patient_id, confidence |-> confidence,
     previous_location |-> previous_location]

\* Variant of match_patient that looks up the first 10 digits of the number.
match_patient_first_ten(medicare_number) ==
    IF ~Truthy(medicare_number)
    THEN PatientMatchResult(FALSE, PyNone, 0, PyNone)
    ELSE IF FirstChars(medicare_number, 10) \in DOMAIN PATIENT_LOCATION_HISTORY
    THEN PatientMatchResult(TRUE, "PAT-" \o LastChars(medicare_number, 6), 95,
                            PATIENT_LOCATION_HISTORY[FirstChars(medicare_number, 10)])
    ELSE PatientMatchResult(FALSE, PyNone, 0, PyNone)

match_patient(medicare_number) ==
    IF ~Truthy(medicare_number)
    THEN PatientMatchResult(FALSE, PyNone, 0, PyNone)
    ELSE IF medicare_number \in DOMAIN PATIENT_LOCATION_HISTORY
    THEN PatientMatchResult(TRUE, "PAT-" \o LastChars(medicare_number, 6), 95,
                            PATIENT_LOCATION_HISTORY[medicare_number])
    ELSE PatientMatchResult(FALSE, PyNone, 0, PyNone)

get_all_locations == [k \in 1..Len(CLINIC_LOCATIONS) |-> CLINIC_LOCATIONS[k].id]

-----------------------------------------------------------------------------
(* triage_service.py: reading the classifier's answer.                       *)
(* json.loads is modelled for the JSON the answers here are written in:      *)
(* objects, strings without escapes, integers, decimals, true, false, null.  *)
(* A parsed value is tagged with its kind k; a decimal is kept in hundredths.*)

\* A backtick cannot be written inside a string of this notation; "#" stands
\* for it.
Backtick == "#"

Fence == Backtick \o Backtick \o Backtick

FenceJson == Fence \o "json"

Max(S) == CHOOSE m \in S : \A n \in S : m >= n

\* str.find(sub, from): the least offset >= from at which sub occurs, or -1
IndexOf(s, sub, from) ==
    LET hits == {p \in from..(Len(s) - Len(sub)) : SubSeq(s, p + 1, p + Len(sub)) = sub}
    IN IF hits = {} THEN -1 ELSE Min(hits)

\* s.split(sep)[0]
SplitFirst(s, sep) ==
    LET at == IndexOf(s, sep, 0)
    IN IF at = -1 THEN s ELSE SubSeq(s, 1, at)

\* s.split(sep)[1], for an s that contains sep
SplitSecond(s, sep) ==
    LET at == IndexOf(s, sep, 0)
    IN SplitFirst(SubSeq(s, at + Len(sep) + 1, Len(s)), sep)

\* str.strip()
Strip(s) ==
    LET keep == {i \in 1..Len(s) : CharAt(s, i) \notin Space}
    IN IF keep = {} THEN "" ELSE SubSeq(s, Min(keep), Max(keep))

JStr(v) == [k |-> "str", v |-> v]

JInt(v) == [k |-> "int", v |-> v]

JFloat(hundredths) == [k |-> "float", v |-> hundredths]

JBool(v) == [k |-> "bool", v |-> v]

JNull == [k |-> "null", v |-> PyNone]

JObj(dict) == [k |-> "obj", v |-> dict]

EmptyDict == [x \in {} |-> JNull]

\* dict[key] = val
Put(dict, key, val) ==
    [x \in DOMAIN dict \cup {key} |-> IF x = key THEN val ELSE dict[x]]

Parsed(val, pos) == [ok |-> TRUE, val |-> val, pos |-> pos]

NotParsed == [ok |-> FALSE, val |-> JNull, pos |-> -1]

\* The offset of the first character at or after pos that is not whitespace.
SkipWs(s, pos) ==
    LET rest == {p \in pos..(Len(s) - 1) : CharAt(s, p + 1) \notin Space}
    IN IF rest = {} THEN Len(s) ELSE Min(rest)

\* The offset of the first character at or after pos that is not a digit.
DigitsEnd(s, pos) ==
    LET rest == {p \in pos..(Len(s) - 1) : CharAt(s, p + 1) \notin Digits}
    IN IF rest = {} THEN Len(s) ELSE Min(rest)

DigitVal(c) == CHOOSE d \in 0..9 : CharAt("0123456789", d + 1) = c

RECURSIVE ToInt(_)
ToInt(str) ==
    IF str = "" THEN 0
    ELSE 10 * ToInt(SubSeq(str, 1, Len(str) - 1)) + DigitVal(CharAt(str, Len(str)))

\* A string: no quote, and no control character, before the closing quote.
ParseString(s, pos) ==
    IF pos >= Len(s) \/ CharAt(s, pos + 1) # "\"" THEN NotParsed
    ELSE LET close == IndexOf(s, "\"", pos + 1)
         IN IF close = -1 THEN NotParsed
            ELSE IF \E i \in (pos + 2)..close : CharAt(s, i) \in {"\n", "\t"}
            THEN NotParsed
            ELSE Parsed(JStr(SubSeq(s, pos + 2, close)), close + 1)

\* -?(0|[1-9]\d*)(\.\d+)?
ParseNumber(s, pos) ==
    LET start == IF CharAt(s, pos + 1) = "-" THEN pos + 1 ELSE pos
        sign == IF start = pos THEN 1 ELSE -1
        all == DigitsEnd(s, start)
        int_end == IF start < Len(s) /\ CharAt(s, start + 1) = "0" THEN start + 1 ELSE all
        frac_end == DigitsEnd(s, int_end + 1)
        whole == ToInt(SubSeq(s, start + 1, int_end))
    IN IF all = start THEN NotParsed
       ELSE IF int_end < Len(s) /\ CharAt(s, int_end + 1) = "." /\ frac_end > int_end + 1
       THEN Parsed(JFloat(sign * (100 * whole
                     + ToInt(FirstChars(SubSeq(s, int_end + 2, frac_end) \o "00", 2)))),
                   frac_end)
       ELSE Parsed(JInt(sign * whole), int_end)

ParseLiteral(s, pos) ==
    IF LitMatches(s, pos, "true", FALSE) THEN Parsed(JBool(TRUE), pos + 4)
    ELSE IF LitMatches(s, pos, "false", FALSE) THEN Parsed(JBool(FALSE), pos + 5)
    ELSE IF LitMatches(s, pos, "null", FALSE) THEN Parsed(JNull, pos + 4)
    ELSE NotParsed

RECURSIVE ParseValue(_, _)
RECURSIVE ParseObject(_, _)
RECURSIVE Members(_, _, _)

ParseValue(s, pos) ==
    IF pos >= Len(s) THEN NotParsed
    ELSE LET c == CharAt(s, pos + 1)
         IN CASE c = "{" -> ParseObject(s, pos)
              [] c = "\"" -> ParseString(s, pos)
              [] c \in Digits \cup {"-"} -> ParseNumber(s, pos)
              [] OTHER -> ParseLiteral(s, pos)

\* An object whose "{" is at pos.
ParseObject(s, pos) ==
    LET first == SkipWs(s, pos + 1)
    IN IF first < Len(s) /\ CharAt(s, first + 1) = "}"
       THEN Parsed(JObj(EmptyDict), first + 1)
       ELSE Members(s, first, EmptyDict)

\* The members of an object from the key at pos on; dict holds the earlier ones
\* (a repeated key keeps its last value).
Members(s, pos, dict) ==
    Let(ParseString(s, pos), LAMBDA key :
        IF ~key.ok THEN NotParsed
        ELSE LET colon == SkipWs(s, key.pos)
             IN IF colon >= Len(s) \/ CharAt(s, colon + 1) # ":" THEN NotParsed
                ELSE Let(ParseValue(s, SkipWs(s, colon + 1)), LAMBDA val :
                    IF ~val.ok THEN NotParsed
                    ELSE Let(Put(dict, key.val.v, val.val), LAMBDA more :
                        LET next == SkipWs(s, val.pos)
                        IN IF next >= Len(s) THEN NotParsed
                           ELSE IF CharAt(s, next + 1) = "}"
                           THEN Parsed(JObj(more), next + 1)
                           ELSE IF CharAt(s, next + 1) = ","
                           THEN Members(s, SkipWs(s, next + 1), more)
                           ELSE NotParsed)))

Returned(value) == [raised |-> PyNone, value |-> value]

Raised(exception) == [raised |-> exception, value |-> JNull]

\* json.loads: the whole text is one value, whitespace around it allowed.
json_loads(s) ==
    Let(ParseValue(s, SkipWs(s, 0)), LAMBDA r :
        IF r.ok /\ SkipWs(s, r.pos) = Len(s)
        THEN Returned(r.val)
        ELSE Raised("JSONDecodeError"))

\* The dict _parse_triage_response returns when nothing could be parsed.
default_triage ==
    JObj("language" :> JStr("Unknown")
         @@ "urgency" :> JObj("level" :> JInt(3)
                              @@ "reasoning" :> JStr("Unable to parse AI response"))
         @@ "intent" :> JStr("Other")
         @@ "summary" :> JStr("Message requires manual review")
         @@ "action_item" :> JStr("Manual review required - AI processing error"))

\* response after the two fence branches of the try block
Unfenced(response) ==
    IF IndexOf(response, FenceJson, 0) # -1
    THEN SplitFirst(SplitSecond(response, FenceJson), Fence)
    ELSE IF IndexOf(response, Fence, 0) # -1
    THEN SplitFirst(SplitSecond(response, Fence), Fence)
    ELSE response

\* re.search(r'\{[\s\S]*\}', text): from the first "{" to the last "}" after
\* it ([\s\S]* is greedy and matches every character), or <<>>.
SearchJsonObject(text) ==
    LET open == IndexOf(text, "{", 0)
        closes == {p \in (open + 1)..(Len(text) - 1) : CharAt(text, p + 1) = "}"}
    IN IF open = -1 \/ closes = {} THEN <<>> ELSE <<open, Max(closes) + 1>>

\* json.loads in the try block; on JSONDecodeError the handler searches the
\* (unfenced) response for {...} and calls json.loads again, outside any try.
_parse_triage_response(response) ==
    LET text == Unfenced(response)
    IN Let(json_loads(Strip(text)), LAMBDA first :
        IF first.raised = PyNone THEN first
        ELSE LET json_match == SearchJsonObject(text)
             IN IF json_match # <<>>
                THEN json_loads(SubSeq(text, json_match[1] + 1, json_match[2]))
                ELSE Returned(default_triage))

valid_intents ==
    {"Booking", "Prescription", "Results", "Emergency", "Billing", "Referral", "Other"}

\* max(1, min(5, level)) for a number
ClampLevel(level) ==
    CASE level.k = "int" -> JInt(IF level.v > 5 THEN 5 ELSE IF level.v < 1 THEN 1 ELSE level.v)
      [] level.k = "float" ->
            IF level.v >= 500 THEN JInt(5) ELSE IF level.v <= 100 THEN JInt(1) ELSE level
      [] level.k = "bool" -> JInt(1)

_validate_triage_output(data) ==
    IF data.k # "obj"
    THEN Raised(IF data.k = "str" /\ ~Contains(data.v, "urgency")
                THEN "AttributeError" ELSE "TypeError")
    ELSE LET has_urgency == "urgency" \in DOMAIN data.v
             urgency == data.v["urgency"]
             level == IF "level" \in DOMAIN urgency.v THEN urgency.v["level"] ELSE JInt(3)
             intent == IF "intent" \in DOMAIN data.v THEN data.v["intent"] ELSE JNull
             intent_ok == intent.k = "str" /\ intent.v \in valid_intents
             normalized == IF intent_ok THEN data.v ELSE Put(data.v, "intent", JStr("Other"))
         IN IF ~has_urgency THEN Returned(JObj(normalized))
            ELSE IF urgency.k # "obj" THEN Raised("AttributeError")
            ELSE IF level.k \notin {"int", "float", "bool"} THEN Raised("TypeError")
            ELSE Returned(JObj(Put(normalized, "urgency",
                                   JObj(Put(urgency.v, "level", ClampLevel(level))))))

-----------------------------------------------------------------------------
(* triage_service.py: the pipeline *)

\* 0\d{3}\s?\d{3}\s?\d{3}, \+61\d{9}, 04\d{8}
callback_patterns ==
    <<Cat(<<Lit("0"), Rep(D, 3, 3), Opt(Ws), Rep(D, 3, 3), Opt(Ws), Rep(D, 3, 3)>>),
      Cat(<<Lit("+61"), Rep(D, 9, 9)>>),
      Cat(<<Lit("04"), Rep(D, 8, 8)>>)>>

RECURSIVE StripSpaces(_)
\* re.sub(r'\s', '', raw)
StripSpaces(raw) ==
    IF raw = "" THEN ""
    ELSE (IF Head(raw) \in Space THEN "" ELSE Head(raw)) \o StripSpaces(Tail(raw))

\* The mask character of _redact_phone_display (U+25CF), as an ASCII stand-in.
BulletChar == "*"

_redact_phone_display(phone) ==
    IF ~Truthy(phone) THEN PyNone
    ELSE LET digits == DigitsOf(phone)
         IN IF Len(digits) >= 4
            THEN RepeatStr(BulletChar, Len(digits) - 4) \o LastChars(digits, 4)
            ELSE RepeatStr(BulletChar, Len(digits))

RECURSIVE FirstCallback(_, _)
\* The first of callback_patterns[k..] that re.search finds in text: the
\* number without its spaces, or PyNone.
FirstCallback(text, k) ==
    IF k > Len(callback_patterns) THEN PyNone
    ELSE Let(Search(callback_patterns[k], text, FALSE), LAMBDA match :
            IF match # <<>>
            THEN StripSpaces(SubSeq(text, match[1] + 1, match[2]))
            ELSE FirstCallback(text, k + 1))

\* _extract_phone_from_text returns (normalized, masked), or (None, None).
_extract_phone_from_text(text) ==
    Let(FirstCallback(text, 1),
        LAMBDA normalized : <<normalized, _redact_phone_display(normalized)>>)

\* The user message of the classifier call.
user_message(redacted_transcript) ==
    "Analyze this voicemail transcript:\n\n" \o redacted_transcript

\* Variant of llm_request that hands the classifier the original transcript.
llm_request_original(transcript, redaction) == user_message(transcript)

\* The second argument of the one _call_llm call of triage: built from the
\* redacted transcript of step 2, never from voicemail.transcript.
llm_request(transcript, redaction) == user_message(redaction.redacted_text)

\* dict.get(key, default)
Get(dict, key, default) == IF key \in DOMAIN dict THEN dict[key] ELSE default

\* A JSON number in hundredths (a bool is a Python int).
Hundredths(j) ==
    CASE j.k = "int" -> 100 * j.v
      [] j.k = "float" -> j.v
      [] j.k = "bool" -> IF j.v THEN 100 ELSE 0

IsNumber(j) == j.k \in {"int", "float", "bool"}

\* Optional objects of the record: None is <<>>, an object x is <<x>>.
None == <<>>

Some(x) == <<x>>

ExtractedEntities(transcript, callback_number, callback_masked, medicare_result) ==
    LET doctor == extract_doctor(transcript)
        mentioned_loc == extract_location(transcript)
    IN [callback_number |-> callback_number,
        callback_number_raw |-> callback_masked,
        medicare_number |-> medicare_result.medicare_number,
        medicare_number_masked |-> medicare_result.medicare_masked,
        mentioned_doctor |-> IF Truthy(doctor[1]) THEN doctor[1] ELSE PyNone,
        mentioned_location |-> IF Truthy(mentioned_loc)
                               THEN get_location_name(mentioned_loc) ELSE PyNone]

LocationInfo(routing_result) ==
    IF Truthy(routing_result.assigned_location)
    THEN Some([assigned_location |-> routing_result.assigned_location,
               location_confidence |-> routing_result.confidence,
               routing_reason |-> routing_result.routing_reason,
               available_locations |-> get_all_locations])
    ELSE None

PatientMatchInfo(patient_match_result) ==
    IF patient_match_result.matched
    THEN Some([medicare_matched |-> patient_match_result.matched,
               patient_id |-> patient_match_result.patient_id,
               match_confidence |-> patient_match_result.confidence,
               previous_location |-> patient_match_result.previous_location])
    ELSE None

EscalationInfo(escalation_result) ==
    [escalation_triggered |-> TRUE,
     emergency_alert_sent |-> TRUE,
     intervention_status |-> escalation_result.intervention_status,
     timestamp_escalated |-> escalation_result.timestamp_escalated,
     emergency_script |-> escalation_result.emergency_script,
     sms_sent_to |-> escalation_result.sms_sent_to,
     actions_taken |-> escalation_result.actions_taken]

\* What a run of triage leaves: the exception it raised (PyNone if it
\* returned), the TriagedVoicemail it returned, and the escalation log.
Outcome(raised, record, log) == [raised |-> raised, record |-> record, log |-> log]

\* Variant of Extraction that prefers the caller-supplied phone.
Extraction_caller_first(voicemail) ==
    Let(_extract_phone_from_text(voicemail.transcript), LAMBDA extracted :
    Let(extract_medicare(voicemail.transcript), LAMBDA medicare_result :
        LET use_caller == Truthy(voicemail.caller_phone)
            callback_number == IF use_caller THEN voicemail.caller_phone
                               ELSE extracted[1]
            callback_masked == IF use_caller
                               THEN _redact_phone_display(voicemail.caller_phone)
                               ELSE extracted[2]
            routing_result == route_voicemail(voicemail.transcript,
                                              medicare_result.medicare_number)
            patient_match_result == match_patient(medicare_result.medicare_number)
        IN [callback_number |-> callback_number,
            extracted_entities |->
                ExtractedEntities(voicemail.transcript, callback_number,
                                  callback_masked, medicare_result),
            location_info |-> LocationInfo(routing_result),
            patient_match |-> PatientMatchInfo(patient_match_result)]))

\* Step 5 and step 6 of triage: what is read from the transcript.
Extraction(voicemail) ==
    Let(_extract_phone_from_text(voicemail.transcript), LAMBDA extracted :
    Let(extract_medicare(voicemail.transcript), LAMBDA medicare_result :
        LET use_caller == ~Truthy(extracted[1]) /\ Truthy(voicemail.caller_phone)
            callback_number == IF use_caller THEN voicemail.caller_phone
                               ELSE extracted[1]
            callback_masked == IF use_caller
                               THEN _redact_phone_display(voicemail.caller_phone)
                               ELSE extracted[2]
            routing_result == route_voicemail(voicemail.transcript,
                                              medicare_result.medicare_number)
            patient_match_result == match_patient(medicare_result.medicare_number)
        IN [callback_number |-> callback_number,
            extracted_entities |->
                ExtractedEntities(voicemail.transcript, callback_number,
                                  callback_masked, medicare_result),
            location_info |-> LocationInfo(routing_result),
            patient_match |-> PatientMatchInfo(patient_match_result)]))

\* Variant of Escalation that alerts only while the shared log is empty.
Escalation_once_per_log(log, vid, urgency_level, intent, callback_number, t) ==
    IF Hundredths(urgency_level) >= 500 /\ log = <<>>
    THEN process_escalation(log, vid, urgency_level.v, intent, callback_number, t)
    ELSE [log |-> log, result |-> NotTriggeredResult]

\* Variant of Escalation whose gate no level passes.
Escalation_gate_above_five(log, vid, urgency_level, intent, callback_number, t) ==
    IF Hundredths(urgency_level) > 500
    THEN process_escalation(log, vid, urgency_level.v, intent, callback_number, t)
    ELSE [log |-> log, result |-> NotTriggeredResult]

\* Step 7 of triage: the escalation, entered only at level 5.
Escalation(log, vid, urgency_level, intent, callback_number, t) ==
    IF Hundredths(urgency_level) >= 500              \* if urgency_level >= 5
    THEN process_escalation(log, vid, urgency_level.v, intent, callback_number, t)
    ELSE [log |-> log, result |-> NotTriggeredResult]

\* Steps 8 to 10 of triage: the record, or the exception its construction raises.
Assemble(vid, voicemail, redaction, triage_data, found, escalation, t) ==
    LET urgency == triage_data["urgency"].v
        urgency_level == urgency["level"]
        intent == Get(triage_data, "intent", JStr("Other")).v
        confidence == Get(urgency, "confidence", JFloat(85))
        is_ambiguous == intent = "Ambiguous" \/ Hundredths(confidence) < 50
        record ==
          [voicemail_id |-> vid,
           language |-> Get(triage_data, "language", JStr("Unknown")).v,
           language_info |->
               [detected |-> Get(triage_data, "language", JStr("Unknown")).v,
                code |-> Get(triage_data, "language_code", JStr("en")).v,
                requires_interpreter |->
                    Get(triage_data, "requires_interpreter", JBool(FALSE)).v],
           urgency |-> [level |-> urgency_level.v,
                        reasoning |-> urgency["reasoning"].v,
                        confidence |-> Hundredths(confidence)],
           intent |-> intent,
           summary |-> Get(triage_data, "summary", JStr("")).v,
           action_item |-> Get(triage_data, "action_item", JStr("")).v,
           extracted_entities |-> found.extracted_entities,
           location_info |-> found.location_info,
           patient_match |-> found.patient_match,
           ui_state |-> [is_ambiguous |-> is_ambiguous,
                         needs_manual_listening |-> is_ambiguous,
                         highlight_urgent |-> Hundredths(urgency_level) >= 400],
           escalation |-> IF escalation.result.escalation_triggered
                          THEN Some(EscalationInfo(escalation.result))
                          ELSE None,
           is_pii_safe |-> redaction.is_pii_safe,
           original_transcript |-> voicemail.transcript,
           redacted_transcript |-> redaction.redacted_text,
           caller_phone_redacted |-> _redact_phone_display(voicemail.caller_phone),
           created_at |-> IF voicemail.call_timestamp # NoTimestamp
                          THEN voicemail.call_timestamp ELSE t,
           processed_at |-> t,
           status |-> "processed"]
    IN IF ~IsNumber(confidence)
       THEN Outcome("TypeError", None, escalation.log)       \* confidence < 0.5
       ELSE IF "reasoning" \notin DOMAIN urgency
       THEN Outcome("KeyError", None, escalation.log)        \* ["urgency"]["reasoning"]
       ELSE IF \/ urgency_level.k = "float"
               \/ Hundredths(confidence) < 0
               \/ Hundredths(confidence) > 100
       THEN Outcome("ValidationError", None, escalation.log) \* UrgencyInfo(...)
       ELSE Outcome(PyNone, Some(record), escalation.log)

\* Steps 5 to 10 of triage, on the validated dict triage_data.
TriageWithData(log, vid, voicemail, redaction, triage_data, t) ==
    IF "urgency" \notin DOMAIN triage_data
    THEN Outcome("KeyError", None, log)                      \* triage_data["urgency"]
    ELSE Let(Extraction(voicemail), LAMBDA found :
         Let(Escalation(log, vid, triage_data["urgency"].v["level"],
                        Get(triage_data, "intent", JStr("Other")).v,
                        found.callback_number, t),
             LAMBDA escalation :
                Assemble(vid, voicemail, redaction, triage_data, found,
                         escalation, t)))

\* triage from the classifier's answer on: step 4, then the steps above.
TriageAfterAnswer(log, vid, voicemail, redaction, ai_response, t) ==
    Let(_parse_triage_response(ai_response), LAMBDA parsed :
        IF parsed.raised # PyNone THEN Outcome(parsed.raised, None, log)
        ELSE Let(_validate_triage_output(parsed.value), LAMBDA validated :
            IF validated.raised # PyNone THEN Outcome(validated.raised, None, log)
            ELSE TriageWithData(log, vid, voicemail, redaction,
                                validated.value.v, t)))

-----------------------------------------------------------------------------
(* Inputs of direct routing calls *)

\* Phrases a routed transcript is built from: site aliases (one in capitals,
\* one inside a longer word), clinician aliases (one inside a longer word),
\* and text that mentions nothing.
RoutePhrases ==
    {"harbour", "the BAY clinic", "northwest", "Dr Wong", "Sarah Chen",
     "kitchen", "thompson", "hello", "please call"}

RECURSIVE TextsOf(_, _)
\* The texts made of 1..n phrases joined by single spaces.
TextsOf(phrases, n) ==
    IF n <= 1 THEN (IF n = 1 THEN phrases ELSE {})
    ELSE LET shorter == TextsOf(phrases, n - 1)
         IN shorter \cup {t \o " " \o p : t \in shorter, p \in phrases}

RouteTranscripts == TextsOf(RoutePhrases, MaxPhrases)

\* Medicare numbers passed to routing: absent, empty, known, unknown.
RouteMedicares == {PyNone, "", "2345678901", "4567890123", "2999999999"}

NotRouted == RoutingResult(PyNone, 0, "<not routed>", PyNone, PyNone)

\* The value of a result variable before the call that sets it.
NotCalled == "<not called>"

NoDoctorCall == <<NotCalled, NotCalled>>

RouteIdle ==
    /\ route_args = [transcript |-> "", medicare_number |-> PyNone]
    /\ route_result = NotRouted
    /\ location_result = NotCalled
    /\ doctor_result = NoDoctorCall

RouteInit ==
    /\ route_args \in [transcript : RouteTranscripts, medicare_number : RouteMedicares]
    /\ route_result = NotRouted
    /\ location_result = NotCalled
    /\ doctor_result = NoDoctorCall

\* A caller invokes smart_routing.route_voicemail(transcript, medicare_number).
CallRouteVoicemail ==
    /\ route_result = NotRouted
    /\ route_result' = route_voicemail(route_args.transcript, route_args.medicare_number)
    /\ UNCHANGED <<route_args, location_result, doctor_result>>

\* A caller invokes smart_routing.extract_location(transcript).
CallExtractLocation ==
    /\ location_result = NotCalled
    /\ location_result' = extract_location(route_args.transcript)
    /\ UNCHANGED <<route_args, route_result, doctor_result>>

\* A caller invokes smart_routing.extract_doctor(transcript).
CallExtractDoctor ==
    /\ doctor_result = NoDoctorCall
    /\ doctor_result' = extract_doctor(route_args.transcript)
    /\ UNCHANGED <<route_args, route_result, location_result>>

Routed == route_result # NotRouted

\* What the transcript and the number of a routing call contain.
HasSite == extract_location(route_args.transcript) # PyNone

HasClinician == extract_doctor(route_args.transcript)[1] # PyNone

HasHistory == route_args.medicare_number \in DOMAIN PATIENT_LOCATION_HISTORY

-----------------------------------------------------------------------------
(* Inputs and calls of the PII filter *)

\* Phrases with and without PII; some make candidates of several types that
\* overlap ("0412345678" is a medicare and a phone candidate on one span).
PiiPhrases ==
    {"0412345678", "2345 67890 1", "4111 1111 1111 1111", "0412 345 678 9",
     "my name is John Smith", "DOB: 15/03/1965", "x@y.zz", "42 Collins Street",
     "this is Dr Wong", "please call", "7"}

PiiTexts == {""} \cup TextsOf(PiiPhrases, MaxPiiPhrases)

NoRedactResult == [redacted_text |-> "", matches |-> <<>>, is_pii_safe |-> FALSE]

PiiIdle ==
    /\ pii_text = ""
    /\ pii_done = {}
    /\ pii_matches = <<>>
    /\ redact_result = NoRedactResult
    /\ reredact_result = NoRedactResult

PiiInit ==
    /\ pii_text \in PiiTexts
    /\ pii_done = {}
    /\ pii_matches = <<>>
    /\ redact_result = NoRedactResult
    /\ reredact_result = NoRedactResult

\* Texts in which a date or a name follows a cue phrase the detection
\* patterns accept, and a bare date.
CuePhrases ==
    {"birthday 15/03/1965", "DOB is 15/03/1965", "born on 15/03/1965", "15/03/1965",
     "my name is John Smith", "Dr Wong"}

CueTexts == TextsOf(CuePhrases, MaxCuePhrases)

CueInit ==
    /\ pii_text \in CueTexts
    /\ pii_done = {}
    /\ pii_matches = <<>>
    /\ redact_result = NoRedactResult
    /\ reredact_result = NoRedactResult

CallDetectPii ==
    /\ "detect_pii" \notin pii_done
    /\ pii_matches' = detect_pii(pii_text)
    /\ pii_done' = pii_done \cup {"detect_pii"}
    /\ UNCHANGED <<pii_text, redact_result, reredact_result>>

CallRedact ==
    /\ "redact" \notin pii_done
    /\ redact_result' = redact(pii_text)
    /\ pii_done' = pii_done \cup {"redact"}
    /\ UNCHANGED <<pii_text, pii_matches, reredact_result>>

\* A caller hands the text redact returned to redact again.
CallRedactOutput ==
    /\ "redact" \in pii_done
    /\ "redact_output" \notin pii_done
    /\ reredact_result' = redact(redact_result.redacted_text)
    /\ pii_done' = pii_done \cup {"redact_output"}
    /\ UNCHANGED <<pii_text, pii_matches, redact_result>>

-----------------------------------------------------------------------------
(* Inputs and calls of the entity extractors and of patient matching *)

\* Phrases of a transcript: health-identifier numbers that are valid
\* (continuous, spaced, dashed), of a wrong first digit (10 and 11 digits) and
\* too short; callback numbers in the spaced national, the international and
\* the compact form; text with no number.
ExtPhrases ==
    {"hello", "2345678901", "2345 67890 1", "2345-67890-1", "1234567890",
     "7345 67890 12", "23456789", "0412 345 678", "+61412345678", "0498765432"}

ExtTexts == {""} \cup TextsOf(ExtPhrases, MaxExtPhrases)

\* Numbers handed to match_patient: absent, empty, keys of the history table,
\* a key followed by a reference digit, and an unknown number.
MatchMedicares ==
    {PyNone, "", "2345678901", "6789012345", "23456789011", "2999999999"}

NoMatchCall == "<no call>"

NoPhone == <<"<no call>", "<no call>">>

ExtIdle ==
    /\ ext_text = ""
    /\ ext_done = {}
    /\ ext_medicare = NoMedicare
    /\ ext_phone = NoPhone
    /\ match_arg = NoMatchCall
    /\ match_result = PatientMatchResult(FALSE, PyNone, 0, PyNone)

ExtInit ==
    /\ ext_text \in ExtTexts
    /\ ext_done = {}
    /\ ext_medicare = NoMedicare
    /\ ext_phone = NoPhone
    /\ match_arg = NoMatchCall
    /\ match_result = PatientMatchResult(FALSE, PyNone, 0, PyNone)

\* A caller invokes smart_routing.extract_medicare(ext_text).
CallExtractMedicare ==
    /\ "extract_medicare" \notin ext_done
    /\ ext_medicare' = extract_medicare(ext_text)
    /\ ext_done' = ext_done \cup {"extract_medicare"}
    /\ UNCHANGED <<ext_text, ext_phone, match_arg, match_result>>

\* A caller invokes _extract_phone_from_text(ext_text).
CallExtractPhone ==
    /\ "extract_phone" \notin ext_done
    /\ ext_phone' = _extract_phone_from_text(ext_text)
    /\ ext_done' = ext_done \cup {"extract_phone"}
    /\ UNCHANGED <<ext_text, ext_medicare, match_arg, match_result>>

\* A caller invokes smart_routing.match_patient(medicare_number).
CallMatchPatient(medicare_number) ==
    /\ "match_patient" \notin ext_done
    /\ match_arg' = medicare_number
    /\ match_result' = match_patient(medicare_number)
    /\ ext_done' = ext_done \cup {"match_patient"}
    /\ UNCHANGED <<ext_text, ext_medicare, ext_phone>>

-----------------------------------------------------------------------------
(* Inputs and steps of the triage pipeline *)

Q(str) == "\"" \o str \o "\""

\* A member "key":text of an object, or nothing for an empty text.
M(key, text) == IF text = "" THEN "" ELSE Q(key) \o ":" \o text

RECURSIVE JoinComma(_)
\* The non-empty members joined by commas.
JoinComma(members) ==
    IF members = <<>> THEN ""
    ELSE LET rest == JoinComma(Tail(members))
         IN IF Head(members) = "" THEN rest
            ELSE IF rest = "" THEN Head(members)
            ELSE Head(members) \o "," \o rest

ObjectText(members) == "{" \o JoinComma(members) \o "}"

\* Levels the classifier may write: none, below range, in range, above range.
LevelTexts == {"", "0", "4", "5", "9"}

ConfidenceTexts == {"", "0.3", "0.9"}

\* The urgency member: absent, or an object with or without level, reasoning
\* and confidence.
UrgencyTexts ==
    {""}
    \cup {ObjectText(<<M("level", l), M("reasoning", Q("r")), M("confidence", c)>>) :
            l \in LevelTexts, c \in ConfidenceTexts}
    \cup {ObjectText(<<M("level", l)>>) : l \in LevelTexts}

\* The intent member: absent, labels of the schema, and a label outside it.
IntentTexts == {"", Q("Emergency"), Q("Booking"), Q("Ambiguous"), Q("Complaint")}

\* Well-formed answers.
Payloads ==
    {ObjectText(<<M("urgency", u), M("intent", i)>>) :
        u \in UrgencyTexts, i \in IntentTexts}

FullPayload ==
    ObjectText(<<M("language", Q("English")),
                 M("urgency", ObjectText(<<M("level", "5"), M("reasoning", Q("r")),
                                           M("confidence", "0.9")>>)),
                 M("intent", Q("Emergency")), M("summary", Q("s")),
                 M("action_item", Q("a"))>>)

\* Well-formed answers inside a fence or inside prose.
WrappedPayloads ==
    {FenceJson \o "\n" \o FullPayload \o "\n" \o Fence,
     Fence \o "\n" \o FullPayload \o "\n" \o Fence,
     "Here is the triage: " \o FullPayload \o " Done."}

\* Answers that are not one JSON object.
Malformed ==
    {"", "I cannot help with that.", "{oops}",
     FenceJson \o "\n{oops}\n" \o Fence,
     FenceJson \o "\nnot json\n" \o Fence,
     "{\"intent\":\"Booking\",}",
     "{\"a\":1} {\"b\":2}",
     "3", "null"}

Responses == Payloads \cup WrappedPayloads \cup Malformed

\* Ways the classifier call ends without an answer: transport error,
\* raise_for_status, cancellation of the pending await.
LlmFailures == {"ConnectError", "HTTPStatusError", "CancelledError"}

\* Submitted voicemails: transcript and caller_phone.
TriageInputs ==
    {[transcript |-> "hello", caller_phone |-> PyNone],
     [transcript |-> "hello", caller_phone |-> ""],
     [transcript |-> "hello", caller_phone |-> "+61412345678"],
     [transcript |-> "call me on 0412 345 678", caller_phone |-> "+61412345678"],
     [transcript |-> "my medicare is 2345 67890 1 harbour clinic",
      caller_phone |-> PyNone]}

NoVoicemail == [transcript |-> "", caller_phone |-> PyNone, call_timestamp |-> NoTimestamp]

\* generate_voicemail_id: a fresh id for every call.
VoicemailId(n) == "vm_" \o CharAt("0123456789", n + 1)

TriageIdle ==
    /\ tri_pc = "idle"
    /\ tri_count = 0
    /\ tri_voicemail = NoVoicemail
    /\ tri_id = PyNone
    /\ tri_redaction = NoRedactResult
    /\ tri_request = PyNone
    /\ tri_llm_calls = 0
    /\ tri_response = PyNone
    /\ tri_raised = PyNone
    /\ tri_record = None

\* triage(voicemail) runs up to its await: id, redaction, classifier request.
TriageStart(input) ==
    /\ tri_pc \in {"idle", "returned", "raised"}
    /\ tri_count < MaxRequests
    /\ tri_count' = tri_count + 1
    /\ tri_id' = VoicemailId(tri_count + 1)
    /\ tri_voicemail' = [transcript |-> input.transcript,
                         caller_phone |-> input.caller_phone,
                         call_timestamp |-> now]
    /\ \E r \in {redact(input.transcript)} :
          /\ tri_redaction' = r
          /\ tri_request' = llm_request(input.transcript, r)
    /\ tri_llm_calls' = 1
    /\ tri_response' = PyNone
    /\ tri_raised' = PyNone
    /\ tri_record' = None
    /\ tri_pc' = "awaiting_llm"
    /\ UNCHANGED esc_vars

\* The classifier answers; triage runs to its end.
LlmRespond(response) ==
    /\ tri_pc = "awaiting_llm"
    /\ \E out \in {TriageAfterAnswer(escalation_log, tri_id, tri_voicemail,
                                    tri_redaction, response, now)} :
          /\ tri_raised' = out.raised
          /\ tri_record' = out.record
          /\ escalation_log' = out.log
          /\ tri_pc' = IF out.raised = PyNone THEN "returned" ELSE "raised"
    /\ tri_response' = response
    /\ UNCHANGED <<tri_count, tri_id, tri_voicemail, tri_redaction, tri_request,
                   tri_llm_calls, now, esc_args, esc_result>>

\* The classifier call raises inside _call_llm; nothing in triage catches it.
LlmFail(exception) ==
    /\ tri_pc = "awaiting_llm"
    /\ tri_raised' = exception
    /\ tri_pc' = "raised"
    /\ UNCHANGED <<tri_count, tri_id, tri_voicemail, tri_redaction, tri_request,
                   tri_llm_calls, tri_response, tri_record, esc_vars>>

-----------------------------------------------------------------------------
(* routers/voicemail.py: the store and the handlers that work on stored records *)

\* The fields of TriagedVoicemail that triage leaves at their defaults.
StoredDefaults ==
    [assigned_to |-> PyNone,
     notes |-> PyNone,
     callback_status |-> "pending",
     callback_attempted_at |-> NoTimestamp,
     callback_completed_at |-> NoTimestamp,
     callback_by |-> PyNone,
     callback_notes |-> PyNone,
     escalation_acknowledged |-> FALSE,
     escalation_acknowledged_at |-> NoTimestamp,
     escalation_acknowledged_by |-> PyNone,
     escalation_reminder_count |-> 0,
     escalation_last_reminder_at |-> NoTimestamp,
     pms_patient_id |-> PyNone,
     pms_linked |-> FALSE,
     pms_system |-> PyNone,
     pms_last_sync |-> NoTimestamp]

\* The TriagedVoicemail object the store holds for a record triage returned.
Stored(record) == record @@ StoredDefaults

\* _get_recent_time(minutes_ago=25), relative to the clock's start.
SeedEscalatedAt == -25

SeedId == "vm_20240115_demo001"

\* The escalated record among the demo records seeded at import, with the
\* fields the handlers below read or write.
SeededVoicemail ==
    [pms_linked |-> TRUE, pms_system |-> "best_practice", pms_patient_id |-> "BP-001"]
    @@ Stored([voicemail_id |-> SeedId,
               urgency |-> [level |-> 5, reasoning |-> "chest pain", confidence |-> 95],
               intent |-> "Emergency",
               escalation |->
                   Some([escalation_triggered |-> TRUE,
                         emergency_alert_sent |-> TRUE,
                         intervention_status |-> "Voice_Alert_Sent",
                         timestamp_escalated |-> SeedEscalatedAt,
                         emergency_script |-> "EMERGENCY_SCRIPT_BILINGUAL",
                         sms_sent_to |-> "+61400000001",
                         actions_taken |-> <<"SMS_Alert_Sent_To_Manager",
                                             "Voice_Alert_Sent_To_Patient">>]),
               status |-> "processed"])

StoreSeeded ==
    /\ voicemail_store = (SeedId :> SeededVoicemail)
    /\ store_ops = 0

\* Voicemails and classifier answers of the requests to POST /triage: a level
\* 5 answer, a level 4 Emergency answer, an answer that makes triage raise.
RouterInputs ==
    {[transcript |-> "hello", caller_phone |-> "+61412345678"]}

RouterResponses ==
    {FullPayload,
     ObjectText(<<M("urgency", ObjectText(<<M("level", "4"), M("reasoning", Q("r"))>>)),
                  M("intent", Q("Emergency"))>>),
     "{oops}"}

Staff == {"nurse"}

\* An UpdateVoicemailRequest with every field left out.
NoUpdate ==
    [status |-> PyNone, assigned_to |-> PyNone, notes |-> PyNone,
     callback_status |-> PyNone, callback_by |-> PyNone, callback_notes |-> PyNone,
     acknowledge_escalation |-> FALSE, acknowledged_by |-> PyNone,
     pms_patient_id |-> PyNone, pms_system |-> PyNone]

UpdateRequests ==
    {[NoUpdate EXCEPT !.status = "actioned", !.notes = "n"],
     [NoUpdate EXCEPT !.acknowledge_escalation = TRUE, !.acknowledged_by = "nurse"],
     [NoUpdate EXCEPT !.callback_status = "attempted", !.callback_by = "nurse",
                      !.pms_patient_id = "BP-002", !.pms_system = "cliniko"]}

\* POST /triage, up to the await inside triage_service.triage.
RouterTriageStart(input) ==
    /\ TriageStart(input)
    /\ UNCHANGED store_vars

\* triage returns and the handler stores the record under its id, or triage
\* raises and the handler answers 500.
RouterTriageRespond(response) ==
    /\ LlmRespond(response)
    /\ voicemail_store' = IF tri_pc' = "returned"
                          THEN Put(voicemail_store, tri_id, Stored(tri_record'[1]))
                          ELSE voicemail_store
    /\ UNCHANGED store_ops

RouterTriageFail(exception) ==
    /\ LlmFail(exception)
    /\ UNCHANGED store_vars

\* Variant of send_escalation_reminder that sends the manager SMS again.
send_escalation_reminder_resend(voicemail_id) ==
    /\ voicemail_id \in DOMAIN voicemail_store
    /\ store_ops < MaxStoreOps
    /\ voicemail_store' =
          [voicemail_store EXCEPT ![voicemail_id] =
              [@ EXCEPT !.escalation_reminder_count = @ + 1,
                        !.escalation_last_reminder_at = now]]
    /\ escalation_log' = send_sms_to_manager(escalation_log, voicemail_id,
                                             "Unknown", now).log
    /\ store_ops' = store_ops + 1
    /\ UNCHANGED <<now, esc_args, esc_result, tri_vars>>

\* POST /{voicemail_id}/send-reminder (404, nothing changed, for an unknown id).
send_escalation_reminder(voicemail_id) ==
    /\ voicemail_id \in DOMAIN voicemail_store
    /\ store_ops < MaxStoreOps
    /\ voicemail_store' =
          [voicemail_store EXCEPT ![voicemail_id] =
              [@ EXCEPT !.escalation_reminder_count = @ + 1,
                        !.escalation_last_reminder_at = now]]
    /\ store_ops' = store_ops + 1
    /\ UNCHANGED <<esc_vars, tri_vars>>

\* POST /{voicemail_id}/acknowledge-escalation
acknowledge_escalation(voicemail_id, acknowledged_by) ==
    /\ voicemail_id \in DOMAIN voicemail_store
    /\ store_ops < MaxStoreOps
    /\ voicemail_store' =
          [voicemail_store EXCEPT ![voicemail_id] =
              [@ EXCEPT !.escalation_acknowledged = TRUE,
                        !.escalation_acknowledged_at = now,
                        !.escalation_acknowledged_by = acknowledged_by]]
    /\ store_ops' = store_ops + 1
    /\ UNCHANGED <<esc_vars, tri_vars>>

\* The assignments of update_voicemail, in the handler's order.
Updated(voicemail, update, t) ==
    LET v1 == IF Truthy(update.status)
              THEN [voicemail EXCEPT !.status = update.status] ELSE voicemail
        v2 == IF update.assigned_to # PyNone
              THEN [v1 EXCEPT !.assigned_to = update.assigned_to] ELSE v1
        v3 == IF update.notes # PyNone THEN [v2 EXCEPT !.notes = update.notes] ELSE v2
        v4 == IF ~Truthy(update.callback_status) THEN v3
              ELSE IF update.callback_status = "attempted"
              THEN [v3 EXCEPT !.callback_status = update.callback_status,
                              !.callback_attempted_at = t]
              ELSE IF update.callback_status
                        \in {"successful", "no_answer", "left_message", "wrong_number"}
              THEN [v3 EXCEPT !.callback_status = update.callback_status,
                              !.callback_completed_at = t]
              ELSE [v3 EXCEPT !.callback_status = update.callback_status]
        v5 == IF Truthy(update.callback_by)
              THEN [v4 EXCEPT !.callback_by = update.callback_by] ELSE v4
        v6 == IF Truthy(update.callback_notes)
              THEN [v5 EXCEPT !.callback_notes = update.callback_notes] ELSE v5
        v7 == IF update.acknowledge_escalation
              THEN [v6 EXCEPT !.escalation_acknowledged = TRUE,
                              !.escalation_acknowledged_at = t,
                              !.escalation_acknowledged_by = update.acknowledged_by]
              ELSE v6
        v8 == IF Truthy(update.pms_patient_id)
              THEN [v7 EXCEPT !.pms_patient_id = update.pms_patient_id,
                              !.pms_linked = TRUE,
                              !.pms_last_sync = t]
              ELSE v7
    IN IF Truthy(update.pms_system) THEN [v8 EXCEPT !.pms_system = update.pms_system]
       ELSE v8

\* PATCH /{voicemail_id}
update_voicemail(voicemail_id, update) ==
    /\ voicemail_id \in DOMAIN voicemail_store
    /\ store_ops < MaxStoreOps
    /\ voicemail_store' =
          [voicemail_store EXCEPT ![voicemail_id] = Updated(@, update, now)]
    /\ store_ops' = store_ops + 1
    /\ UNCHANGED <<esc_vars, tri_vars>>

\* The ids a request can name: the seeded one and those triage has given out.
StoreIds == {SeedId} \cup {VoicemailId(n) : n \in 1..MaxRequests}

-----------------------------------------------------------------------------
(* Concurrent requests to POST /triage: several triage coroutines on one
   event loop, each suspended at its await of the classifier *)

Calls == 1..MaxCalls

\* The locals of a triage coroutine that has not started.
IdleCall ==
    [pc |-> "idle", voicemail |-> NoVoicemail, id |-> PyNone,
     redaction |-> NoRedactResult, request |-> PyNone, response |-> PyNone,
     raised |-> PyNone, record |-> None]

ConcIdle == calls = [call \in Calls |-> IdleCall]

\* Voicemails of the concurrent requests.
ConcInputs ==
    {[transcript |-> "hello", caller_phone |-> "+61412345678"],
     [transcript |-> "2345 67890 1 harbour", caller_phone |-> PyNone]}

\* One coroutine runs triage(voicemail) up to its await.
ConcStart(call, input) ==
    /\ calls[call].pc = "idle"
    /\ \E r \in {redact(input.transcript)} :
          calls' = [calls EXCEPT ![call] =
                      [pc |-> "awaiting_llm",
                       voicemail |-> [transcript |-> input.transcript,
                                      caller_phone |-> input.caller_phone,
                                      call_timestamp |-> now],
                       id |-> VoicemailId(call),
                       redaction |-> r,
                       request |-> llm_request(input.transcript, r),
                       response |-> PyNone,
                       raised |-> PyNone,
                       record |-> None]]
    /\ UNCHANGED esc_vars

\* The classifier answers one suspended coroutine, which runs to its end.
ConcRespond(call, response) ==
    /\ calls[call].pc = "awaiting_llm"
    /\ \E out \in {TriageAfterAnswer(escalation_log, calls[call].id,
                                    calls[call].voicemail, calls[call].redaction,
                                    response, now)} :
          /\ calls' = [calls EXCEPT ![call] =
                         [@ EXCEPT !.pc = IF out.raised = PyNone THEN "returned"
                                          ELSE "raised",
                                   !.response = response,
                                   !.raised = out.raised,
                                   !.record = out.record]]
          /\ escalation_log' = out.log
    /\ UNCHANGED <<now, esc_args, esc_result>>

\* The classifier call of one suspended coroutine raises.
ConcFail(call, exception) ==
    /\ calls[call].pc = "awaiting_llm"
    /\ calls' = [calls EXCEPT ![call] =
                   [@ EXCEPT !.pc = "raised", !.raised = exception]]
    /\ UNCHANGED esc_vars

-----------------------------------------------------------------------------
(* The rule-based stand-in classifier, called directly *)

\* A character outside ASCII is written as a token in braces. A Vietnamese
\* letter is its base letter, then its shape ("^" circumflex, "(" breve,
\* "+" horn, "-" stroke), then its tone ("!" grave, "'" acute, "?" hook,
\* "~" tilde, "." dot below); its capital has the base letter in capitals, so
\* that ToLower is str.lower() on it. Any other character is its code point
\* in four hexadecimal digits; the texts here hold only such characters that
\* str.lower() leaves alone.
VietnameseBases ==
    {"a", "a(", "a^", "e", "e^", "i", "o", "o^", "o+", "u", "u+", "y"}

VietnameseTones == {"!", "'", "?", "~", "."}

\* The character class of the Vietnamese detection.
vietnamese_char_class ==
    {"{" \o b \o t \o "}" : b \in VietnameseBases, t \in VietnameseTones}
    \cup {"{" \o b \o "}" : b \in {"a(", "a^", "e^", "o^", "o+", "u+", "d-"}}

HexDigits == "0123456789abcdef"

IsHex(c) == \E i \in 1..Len(HexDigits) : CharAt(HexDigits, i) = c

HexVal(c) == (CHOOSE i \in 1..Len(HexDigits) : CharAt(HexDigits, i) = c) - 1

\* The code points of the characters of text written as code points.
CodePoints(text) ==
    {HexVal(CharAt(text, i + 1)) * 4096 + HexVal(CharAt(text, i + 2)) * 256
        + HexVal(CharAt(text, i + 3)) * 16 + HexVal(CharAt(text, i + 4)) :
     i \in {j \in 1..(Len(text) - 5) :
              /\ CharAt(text, j) = "{"
              /\ CharAt(text, j + 5) = "}"
              /\ \A d \in 1..4 : IsHex(CharAt(text, j + d))}}

\* any(kw in transcript_lower for kw in keywords)
AnyIn(transcript_lower, keywords) ==
    \E k \in 1..Len(keywords) : Contains(transcript_lower, keywords[k])

\* en, vi, zh, el
emergency_keywords ==
    << <<"emergency", "chest pain", "can't breathe", "bleeding", "unconscious",
         "heart attack", "stroke">>,
       <<"{d-}au ng{u+.}c", "kh{o'} th{o+?}", "ch{a?}y m{a'}u", "b{a^'}t t{i?}nh",
         "c{a^'}p c{u+'}u", "{d-}au tim">>,
       <<"{80f8}{75db}", "{547c}{5438}{56f0}{96be}", "{51fa}{8840}", "{660f}{8ff7}",
         "{6025}{8bca}", "{5fc3}{810f}{75c5}">>,
       <<"{03c0}{03cc}{03bd}{03bf}{03c2} {03c3}{03c4}{03bf} {03c3}{03c4}{03ae}{03b8}{03bf}{03c2}",
         "{03b4}{03c5}{03c3}{03ba}{03bf}{03bb}{03af}{03b1} {03b1}{03bd}{03b1}{03c0}{03bd}{03bf}{03ae}{03c2}",
         "{03b1}{03b9}{03bc}{03bf}{03c1}{03c1}{03b1}{03b3}{03af}{03b1}">> >>

\* en, vi, zh
high_priority_keywords ==
    << <<"urgent", "ran out", "medication", "worse", "pain", "worried", "lo l{a('}ng">>,
       <<"c{a^'}p b{a'}ch", "h{e^'}t thu{o^'}c", "t{e^.} h{o+}n", "{d-}au", "lo l{a('}ng">>,
       <<"{7d27}{6025}", "{6ca1}{836f}{4e86}", "{66f4}{7cdf}", "{75bc}{75db}">> >>

prescription_keywords ==
    <<"prescription", "refill", "medication", "pills", "tablets", "script",
      "thu{o^'}c", "{836f}">>

booking_keywords ==
    <<"appointment", "book", "schedule", "reschedule", "{9884}{7ea6}",
      "{d-}{a(.}t l{i.}ch">>

results_keywords ==
    <<"results", "test", "blood work", "scan", "report", "k{e^'}t qu{a?}",
      "{7ed3}{679c}">>

vietnamese_words ==
    <<"xin", "ch{a!}o", "t{o^}i", "c{u?}a", "g{o.}i", "l{a.}i", "c{a?}m {o+}n">>

\* The loop over the lists of a keyword table, ended at the first hit.
AnyLanguage(transcript_lower, table) ==
    \E l \in 1..Len(table) : AnyIn(transcript_lower, table[l])

\* <<language, language_code, requires_interpreter>>
MockLanguage(transcript) ==
    IF \/ \E glyph \in vietnamese_char_class : Contains(ToLower(transcript), glyph)
       \/ AnyIn(ToLower(transcript), vietnamese_words)
    THEN <<"Vietnamese", "vi", TRUE>>
    ELSE IF \E cp \in CodePoints(transcript) : 19968 <= cp /\ cp <= 40959
    THEN <<"Mandarin Chinese", "zh", TRUE>>
    ELSE IF \E cp \in CodePoints(transcript) : 880 <= cp /\ cp <= 1023
    THEN <<"Greek", "el", TRUE>>
    ELSE <<"English", "en", FALSE>>

\* Variant of MockUrgency that tests the high-priority flag first.
MockUrgency_priority_first(is_emergency, is_high_priority) ==
    IF is_high_priority
    THEN [urgency_level |-> 4,
          urgency_reasoning |-> "High priority indicators - patient may need urgent attention",
          confidence |-> 88]
    ELSE IF is_emergency
    THEN [urgency_level |-> 5,
          urgency_reasoning |-> "Emergency symptoms detected (multilingual) - potential life-threatening situation",
          confidence |-> 92]
    ELSE [urgency_level |-> 3,
          urgency_reasoning |-> "Standard medical inquiry requiring routine follow-up",
          confidence |-> 85]

\* urgency_level, urgency_reasoning and confidence (in hundredths).
MockUrgency(is_emergency, is_high_priority) ==
    IF is_emergency
    THEN [urgency_level |-> 5,
          urgency_reasoning |-> "Emergency symptoms detected (multilingual) - potential life-threatening situation",
          confidence |-> 92]
    ELSE IF is_high_priority
    THEN [urgency_level |-> 4,
          urgency_reasoning |-> "High priority indicators - patient may need urgent attention",
          confidence |-> 88]
    ELSE [urgency_level |-> 3,
          urgency_reasoning |-> "Standard medical inquiry requiring routine follow-up",
          confidence |-> 85]

MockIntent(is_emergency, transcript_lower) ==
    IF is_emergency THEN "Emergency"
    ELSE IF AnyIn(transcript_lower, prescription_keywords) THEN "Prescription"
    ELSE IF AnyIn(transcript_lower, results_keywords) THEN "Results"
    ELSE IF AnyIn(transcript_lower, booking_keywords) THEN "Booking"
    ELSE "Other"

action_map ==
    [intent \in {"Emergency", "Prescription", "Results", "Booking", "Other"} |->
        CASE intent = "Emergency" ->
               "IMMEDIATE: Contact patient and advise to call 000 or present to ED immediately"
          [] intent = "Prescription" ->
               "Review with prescriber and arrange e-script if appropriate"
          [] intent = "Results" ->
               "Retrieve results and arrange callback or appointment to discuss"
          [] intent = "Booking" ->
               "Check availability and call back to confirm appointment"
          [] intent = "Other" ->
               "Review message and respond within standard timeframe"]

attention_levels == <<"routine", "moderate", "standard", "urgent", "immediate">>

RECURSIVE JoinMembers(_)
\* The members "key": value of a dict joined as json.dumps joins them.
JoinMembers(members) ==
    IF members = <<>> THEN ""
    ELSE Q(Head(members)[1]) \o ": " \o Head(members)[2]
         \o (IF Len(members) = 1 THEN "" ELSE ", " \o JoinMembers(Tail(members)))

\* json.dumps of a dict whose values are already written as JSON text.
json_dumps(members) == "{" \o JoinMembers(members) \o "}"

\* The returned text is json.dumps(mock_response).
_mock_triage_response(transcript) ==
    LET transcript_lower == ToLower(transcript)
        language == MockLanguage(transcript)
        is_emergency == AnyLanguage(transcript_lower, emergency_keywords)
        is_high_priority == AnyLanguage(transcript_lower, high_priority_keywords)
        urgency == MockUrgency(is_emergency, is_high_priority)
        intent == MockIntent(is_emergency, transcript_lower)
        action == action_map[intent]
                    \o (IF language[3]
                        THEN " - " \o language[1] \o " interpreter required"
                        ELSE "")
    IN json_dumps(<<
         <<"language", Q(language[1])>>,
         <<"language_code", Q(language[2])>>,
         <<"requires_interpreter", IF language[3] THEN "true" ELSE "false">>,
         <<"urgency", json_dumps(<<
              <<"level", ToString(urgency.urgency_level)>>,
              <<"reasoning", Q(urgency.urgency_reasoning)>>,
              <<"confidence", "0." \o ToString(urgency.confidence)>> >>)>>,
         <<"intent", Q(intent)>>,
         <<"summary", Q("Patient message regarding " \o ToLower(intent)
                        \o " matter - requires "
                        \o attention_levels[urgency.urgency_level] \o " attention")>>,
         <<"action_item", Q(action)>> >>)

\* Phrases of a message left for the clinic: emergency, high-priority and
\* intent keywords in English, Vietnamese, Chinese and Greek, in capitals and
\* inside longer words, and text with no keyword.
MockPhrases ==
    {"chest pain", "I had a STROKE", "it is urgent", "feeling worse",
     "Painting the fence", "a refill", "book me in", "hello there",
     "{D-}AU NG{U+.}C", "t{o^}i b{i.} {d-}au", "{80f8}{75db}",
     "{03b1}{03b9}{03bc}{03bf}{03c1}{03c1}{03b1}{03b3}{03af}{03b1}"}

MockTexts == TextsOf(MockPhrases, MaxMockPhrases)

\* The classifier is handed a bare text, or the user message triage builds.
MockInputs == MockTexts \cup {user_message(t) : t \in MockTexts}

MockIdle ==
    /\ mock_text = ""
    /\ mock_result = PyNone

MockInit ==
    /\ mock_text \in MockInputs
    /\ mock_result = PyNone

\* _call_llm without an API key: return self._mock_triage_response(user_message).
CallMockTriageResponse ==
    /\ mock_result = PyNone
    /\ mock_result' = _mock_triage_response(mock_text)
    /\ UNCHANGED mock_text

-----------------------------------------------------------------------------
(* Specifications *)

InitEscalation == EscInit /\ RouteIdle /\ PiiIdle /\ ExtIdle /\ TriageIdle /\ StoreSeeded
      /\ ConcIdle /\ MockIdle

NextEscalation ==
    \/ Tick /\ UNCHANGED <<route_vars, pii_vars, ext_vars, tri_vars, store_vars, conc_vars, mock_vars>>
    \/ \E vid \in VoicemailIds, u \in Urgencies, intent \in EscIntents,
          phone \in Phones :
            CallProcessEscalation(vid, u, intent, phone)
              /\ UNCHANGED <<route_vars, pii_vars, ext_vars, tri_vars, store_vars, conc_vars, mock_vars>>

SpecEscalation == InitEscalation /\ [][NextEscalation]_vars

InitRouting == EscInit /\ RouteInit /\ PiiIdle /\ ExtIdle /\ TriageIdle /\ StoreSeeded
      /\ ConcIdle /\ MockIdle

NextRouting ==
    \/ CallRouteVoicemail /\ UNCHANGED <<esc_vars, pii_vars, ext_vars, tri_vars, store_vars, conc_vars, mock_vars>>
    \/ CallExtractLocation /\ UNCHANGED <<esc_vars, pii_vars, ext_vars, tri_vars, store_vars, conc_vars, mock_vars>>
    \/ CallExtractDoctor /\ UNCHANGED <<esc_vars, pii_vars, ext_vars, tri_vars, store_vars, conc_vars, mock_vars>>

SpecRouting == InitRouting /\ [][NextRouting]_vars

\* Steps 6 and "patient matching" of triage: route_voicemail and match_patient
\* are called with the same medicare number.
NextAgreement ==
    \/ CallRouteVoicemail /\ UNCHANGED <<esc_vars, pii_vars, ext_vars, tri_vars, store_vars, conc_vars, mock_vars>>
    \/ CallMatchPatient(route_args.medicare_number)
          /\ UNCHANGED <<esc_vars, route_vars, pii_vars, tri_vars, store_vars, conc_vars, mock_vars>>

SpecAgreement == InitRouting /\ [][NextAgreement]_vars

InitPII == EscInit /\ RouteIdle /\ PiiInit /\ ExtIdle /\ TriageIdle /\ StoreSeeded
      /\ ConcIdle /\ MockIdle

NextPII ==
    \/ CallDetectPii /\ UNCHANGED <<esc_vars, route_vars, ext_vars, tri_vars, store_vars, conc_vars, mock_vars>>
    \/ CallRedact /\ UNCHANGED <<esc_vars, route_vars, ext_vars, tri_vars, store_vars, conc_vars, mock_vars>>
    \/ CallRedactOutput /\ UNCHANGED <<esc_vars, route_vars, ext_vars, tri_vars, store_vars, conc_vars, mock_vars>>

SpecPII == InitPII /\ [][NextPII]_vars

InitCues == EscInit /\ RouteIdle /\ CueInit /\ ExtIdle /\ TriageIdle /\ StoreSeeded
      /\ ConcIdle /\ MockIdle

SpecCues == InitCues /\ [][NextPII]_vars

InitExtraction == EscInit /\ RouteIdle /\ PiiIdle /\ ExtInit /\ TriageIdle /\ StoreSeeded
      /\ ConcIdle /\ MockIdle

NextExtraction ==
    \/ CallExtractMedicare /\ UNCHANGED <<esc_vars, route_vars, pii_vars, tri_vars, store_vars, conc_vars, mock_vars>>
    \/ CallExtractPhone /\ UNCHANGED <<esc_vars, route_vars, pii_vars, tri_vars, store_vars, conc_vars, mock_vars>>
    \/ \E medicare_number \in MatchMedicares :
          CallMatchPatient(medicare_number)
            /\ UNCHANGED <<esc_vars, route_vars, pii_vars, tri_vars, store_vars, conc_vars, mock_vars>>

SpecExtraction == InitExtraction /\ [][NextExtraction]_vars

\* The handlers of the router, run at one instant of the clock.
InitRouter == EscInit /\ RouteIdle /\ PiiIdle /\ ExtIdle /\ TriageIdle /\ StoreSeeded
      /\ ConcIdle /\ MockIdle

NextRouter ==
    \/ \E input \in RouterInputs :
          RouterTriageStart(input) /\ UNCHANGED <<route_vars, pii_vars, ext_vars, conc_vars, mock_vars>>
    \/ \E response \in RouterResponses :
          RouterTriageRespond(response) /\ UNCHANGED <<route_vars, pii_vars, ext_vars, conc_vars, mock_vars>>
    \/ \E exception \in LlmFailures :
          RouterTriageFail(exception) /\ UNCHANGED <<route_vars, pii_vars, ext_vars, conc_vars, mock_vars>>
    \/ \E voicemail_id \in StoreIds :
          send_escalation_reminder(voicemail_id)
            /\ UNCHANGED <<route_vars, pii_vars, ext_vars, conc_vars, mock_vars>>
    \/ \E voicemail_id \in StoreIds, acknowledged_by \in Staff :
          acknowledge_escalation(voicemail_id, acknowledged_by)
            /\ UNCHANGED <<route_vars, pii_vars, ext_vars, conc_vars, mock_vars>>
    \/ \E voicemail_id \in StoreIds, update \in UpdateRequests :
          update_voicemail(voicemail_id, update)
            /\ UNCHANGED <<route_vars, pii_vars, ext_vars, conc_vars, mock_vars>>

SpecRouter == InitRouter /\ [][NextRouter]_vars

\* The coroutines of concurrent requests, run at one instant of the clock.
InitConcurrent == EscInit /\ RouteIdle /\ PiiIdle /\ ExtIdle /\ TriageIdle /\ StoreSeeded
      /\ ConcIdle /\ MockIdle

NextConcurrent ==
    \/ \E call \in Calls, input \in ConcInputs :
          ConcStart(call, input)
            /\ UNCHANGED <<route_vars, pii_vars, ext_vars, tri_vars, store_vars, mock_vars>>
    \/ \E call \in Calls, response \in RouterResponses :
          ConcRespond(call, response)
            /\ UNCHANGED <<route_vars, pii_vars, ext_vars, tri_vars, store_vars, mock_vars>>
    \/ \E call \in Calls :
          ConcFail(call, "CancelledError")
            /\ UNCHANGED <<route_vars, pii_vars, ext_vars, tri_vars, store_vars, mock_vars>>

SpecConcurrent == InitConcurrent /\ [][NextConcurrent]_vars

InitMock == EscInit /\ RouteIdle /\ PiiIdle /\ ExtIdle /\ TriageIdle /\ StoreSeeded
      /\ ConcIdle /\ MockInit

NextMock ==
    CallMockTriageResponse
      /\ UNCHANGED <<esc_vars, route_vars, pii_vars, ext_vars, tri_vars, store_vars, conc_vars>>

SpecMock == InitMock /\ [][NextMock]_vars

InitTriage == EscInit /\ RouteIdle /\ PiiIdle /\ ExtIdle /\ TriageIdle /\ StoreSeeded
      /\ ConcIdle /\ MockIdle

NextTriage ==
    \/ \E input \in TriageInputs :
          TriageStart(input) /\ UNCHANGED <<route_vars, pii_vars, ext_vars, store_vars, conc_vars, mock_vars>>
    \/ \E response \in Responses :
          LlmRespond(response) /\ UNCHANGED <<route_vars, pii_vars, ext_vars, store_vars, conc_vars, mock_vars>>
    \/ \E exception \in LlmFailures :
          LlmFail(exception) /\ UNCHANGED <<route_vars, pii_vars, ext_vars, store_vars, conc_vars, mock_vars>>

SpecTriage == InitTriage /\ [][NextTriage]_vars

-----------------------------------------------------------------------------
(* Claims about the escalation state machine *)

Called == esc_args # NoCall

\* C1: process_escalation (via should_escalate) reports escalation_triggered
\* exactly when urgency_level >= 5, or urgency_level >= 4 and the intent is
\* exactly "Emergency"; every other combination gives FALSE.
C1_TriggerIff ==
    Called =>
        (esc_result.escalation_triggered
            <=> (\/ esc_args.urgency_level >= 5
                 \/ (esc_args.urgency_level >= 4 /\ esc_args.intent = "Emergency")))

\* Witness for C1: a level-4 call whose intent is a case variant of Emergency
\* (not triggered) has happened.
C1_Witness ==
    /\ Called
    /\ esc_args.urgency_level = 4
    /\ esc_args.intent = "emergency"
    /\ ~esc_result.escalation_triggered

\* C3: on a trigger, the status is Voice_Alert_Sent exactly when a non-empty
\* callback number was passed, with both action tags in order; it is
\* SMS_Alert_Only exactly when no number was passed, with the manager tag only;
\* Escalation_Failed is never produced.
C3_InterventionStatus ==
    (Called /\ esc_result.escalation_triggered) =>
        /\ (esc_result.intervention_status = "Voice_Alert_Sent"
                <=> Truthy(esc_args.patient_phone))
        /\ (esc_result.intervention_status = "SMS_Alert_Only"
                <=> ~Truthy(esc_args.patient_phone))
        /\ (esc_result.intervention_status = "Voice_Alert_Sent"
                => esc_result.actions_taken =
                     <<"SMS_Alert_Sent_To_Manager", "Voice_Alert_Sent_To_Patient">>)
        /\ (esc_result.intervention_status = "SMS_Alert_Only"
                => esc_result.actions_taken = <<"SMS_Alert_Sent_To_Manager">>)
        /\ esc_result.intervention_status # "Escalation_Failed"

\* Witness for C3: a triggered escalation with an empty-string phone ended
\* SMS_Alert_Only.
C3_Witness ==
    /\ Called
    /\ esc_result.escalation_triggered
    /\ esc_args.patient_phone = ""
    /\ esc_result.intervention_status = "SMS_Alert_Only"

\* C4: triggered implies intervention_status is not "None"; not triggered
\* implies status "None", no timestamp, no script, no notified contact and no
\* actions.
C4_ResultInvariant ==
    /\ esc_result.escalation_triggered => esc_result.intervention_status # "None"
    /\ ~esc_result.escalation_triggered =>
          /\ esc_result.intervention_status = "None"
          /\ esc_result.timestamp_escalated = NoTimestamp
          /\ esc_result.emergency_script = PyNone
          /\ esc_result.sms_sent_to = PyNone
          /\ esc_result.actions_taken = <<>>

\* Witness for C4: a call at a later clock value was evaluated and not
\* triggered, after an earlier call had triggered.
C4_Witness ==
    /\ Called
    /\ now > 0
    /\ ~esc_result.escalation_triggered
    /\ Len(escalation_log) > 0

-----------------------------------------------------------------------------
(* Claims about routing *)

\* C6: route_voicemail returns the first tier that applies, in the order site
\* mention (0.95), clinician association (0.85, the clinician's home site),
\* patient history (0.75, the stored site), unassigned (0.0, no site), whatever
\* the lower tiers would have given; the confidence is a function of the
\* reason alone.
C6_TierPriority ==
    Routed =>
        /\ HasSite =>
              /\ route_result.routing_reason = "location_mentioned"
              /\ route_result.assigned_location = extract_location(route_args.transcript)
        /\ (~HasSite /\ HasClinician) =>
              /\ route_result.routing_reason = "doctor_association"
              /\ route_result.assigned_location = extract_doctor(route_args.transcript)[2]
        /\ (~HasSite /\ ~HasClinician /\ HasHistory) =>
              /\ route_result.routing_reason = "patient_history"
              /\ route_result.assigned_location =
                    PATIENT_LOCATION_HISTORY[route_args.medicare_number]
        /\ (~HasSite /\ ~HasClinician /\ ~HasHistory) =>
              /\ route_result.routing_reason = "unassigned"
              /\ route_result.assigned_location = PyNone
        /\ route_result.confidence =
              (CASE route_result.routing_reason = "location_mentioned" -> 95
                 [] route_result.routing_reason = "doctor_association" -> 85
                 [] route_result.routing_reason = "patient_history" -> 75
                 [] route_result.routing_reason = "unassigned" -> 0)
        /\ (route_args.transcript = "Dr Wong" =>
              /\ route_result.assigned_location = "sunset"
              /\ route_result.confidence = 85)
        /\ (route_args.transcript = "harbour Dr Wong" =>
              /\ route_result.assigned_location = "harbour"
              /\ route_result.confidence = 95)

\* Witness for C6: a transcript naming a site and a clinician of another site,
\* with a health-identifier known to the history table for a third site, was
\* routed to the named site.
C6_Witness ==
    /\ Routed
    /\ route_args.transcript = "Dr Wong harbour"
    /\ route_args.medicare_number = "4567890123"
    /\ route_result.assigned_location = "harbour"
    /\ route_result.confidence = 95

-----------------------------------------------------------------------------
(* Claims about the PII filter *)

Detected == "detect_pii" \in pii_done

\* detect_pii has just returned: pii_text and pii_matches never change after the
\* call, so what holds of them in this state holds in every later one.
JustDetected == pii_done = {"detect_pii"}

Overlap(a, b) == a.start_pos < b.end_pos /\ b.start_pos < a.end_pos

\* C5: every match detect_pii returns has 0 <= start_pos < end_pos <= len(text),
\* and no two matches it returns overlap (of any two distinct returned matches,
\* one ends at or before the other starts).
C5_SpansInBoundsDisjoint ==
    Detected =>
        /\ \A k \in 1..Len(pii_matches) :
              /\ 0 <= pii_matches[k].start_pos
              /\ pii_matches[k].start_pos < pii_matches[k].end_pos
              /\ pii_matches[k].end_pos <= Len(pii_text)
        /\ \A j, k \in 1..Len(pii_matches) :
              j # k =>
                \/ pii_matches[j].end_pos <= pii_matches[k].start_pos
                \/ pii_matches[k].end_pos <= pii_matches[j].start_pos

\* Witness for C5: detect_pii has returned two or more matches for a text in
\* which two candidates overlapped, so the overlap resolution dropped one.
C5_Witness ==
    /\ Detected
    /\ Len(pii_matches) >= 2
    /\ LET c == Candidates(pii_text)
       IN \E j, k \in 1..Len(c) : j # k /\ Overlap(c[j], c[k])

-----------------------------------------------------------------------------
(* Claims about the triage pipeline *)

TriageReturned == tri_pc = "returned"

TriageEnded == tri_pc \in {"returned", "raised"}

\* The classifier answered (the call did not fail) and triage has ended.
Answered == TriageEnded /\ tri_response # PyNone

\* The labels of IntentType.
IntentTypes ==
    {"Booking", "Prescription", "Results", "Emergency", "Billing", "Referral",
     "Ambiguous", "Other"}

\* The record carries the content of the safe default.
SafeDefaultContent(r) ==
    /\ r.language = "Unknown"
    /\ r.urgency.level = 3
    /\ r.intent = "Other"
    /\ r.action_item = "Manual review required - AI processing error"

\* No JSON can be read from the answer: not from the whole text or the fenced
\* part, and not from the span between its first "{" and its last "}".
Unparseable(response) ==
    LET text == Unfenced(response)
        span == SearchJsonObject(text)
    IN /\ json_loads(Strip(text)).raised # PyNone
       /\ \/ span = <<>>
          \/ json_loads(SubSeq(text, span[1] + 1, span[2])).raised # PyNone

\* C2: whenever the clamped urgency level and the normalized intent of the
\* assembled record satisfy the trigger predicate (level >= 5, or level >= 4
\* with intent Emergency), the escalation was run and the record carries its
\* result with escalation_triggered true; so a record with level 4 and intent
\* Emergency carries escalation info.
C2_TriggerRunsEscalation ==
    TriageReturned =>
        LET r == tri_record[1]
        IN should_escalate(r.urgency.level, r.intent) =>
              /\ r.escalation # None
              /\ r.escalation[1].escalation_triggered

\* C7: for every classifier answer from which no JSON can be read (text with
\* braces that is not JSON, a fence with invalid content, plain prose), triage
\* does not raise and the record carries the safe default: language Unknown,
\* urgency level 3, intent Other, the manual-review action note.
C7_ParseFailureGivesDefault ==
    (Answered /\ Unparseable(tri_response)) =>
        /\ TriageReturned
        /\ SafeDefaultContent(tri_record[1])

\* C8: for every structured answer (a JSON object, also one without urgency,
\* without level, or with a level out of range), triage completes and the
\* record has a level in 1..5 and an intent of the enumerated set; nothing is
\* raised.
C8_StructuredAnswerCompletes ==
    (Answered /\ tri_response \in Payloads) =>
        /\ TriageReturned
        /\ tri_record[1].urgency.level \in 1..5
        /\ tri_record[1].intent \in IntentTypes

\* C9: if the classifier call fails or is abandoned while pending, triage
\* still returns a record with the safe default content instead of raising.
C9_FailedCallGivesDefault ==
    (TriageEnded /\ tri_response = PyNone) =>
        /\ TriageReturned
        /\ SafeDefaultContent(tri_record[1])

\* C10: is_ambiguous, and needs_manual_listening with it, is true whenever the
\* classifier returned the intent Ambiguous, whatever the confidence, and
\* otherwise exactly when the confidence is below 0.5.
C10_AmbiguityFlag ==
    TriageReturned =>
        LET data == _parse_triage_response(tri_response).value.v
            returned_intent == Get(data, "intent", JNull)
            said_ambiguous == returned_intent.k = "str" /\ returned_intent.v = "Ambiguous"
            r == tri_record[1]
        IN /\ r.ui_state.needs_manual_listening = r.ui_state.is_ambiguous
           /\ r.ui_state.is_ambiguous <=> (said_ambiguous \/ r.urgency.confidence < 50)

\* C11: in every run of triage the classifier is called once, after step 2,
\* and the text it receives is the output of redact on the transcript, never
\* the original transcript; entity extraction reads the original transcript,
\* and neither the redaction nor the classifier input depends on it.
C11_ClassifierGetsRedactedText ==
    tri_pc # "idle" =>
        LET transcript == tri_voicemail.transcript
            redaction == redact(transcript)
        IN /\ tri_llm_calls = 1
           /\ tri_redaction = redaction
           /\ tri_request = user_message(redaction.redacted_text)
           /\ (redaction.redacted_text # transcript
                 => ~Contains(tri_request, transcript))
           /\ TriageReturned =>
                 /\ tri_record[1].original_transcript = transcript
                 /\ tri_record[1].redacted_transcript = redaction.redacted_text
                 /\ tri_record[1].extracted_entities.callback_number
                      = (IF Truthy(_extract_phone_from_text(transcript)[1])
                         THEN _extract_phone_from_text(transcript)[1]
                         ELSE IF Truthy(tri_voicemail.caller_phone)
                         THEN tri_voicemail.caller_phone ELSE PyNone)
                 /\ tri_record[1].extracted_entities.medicare_number
                      = extract_medicare(transcript).medicare_number

\* Witness for C11: a transcript with a phone number was triaged; the
\* classifier got a text without the number, and the record carries the number
\* read from the original transcript.
C11_Witness ==
    /\ TriageReturned
    /\ tri_voicemail.transcript = "call me on 0412 345 678"
    /\ ~Contains(tri_request, "0412 345 678")
    /\ tri_record[1].extracted_entities.callback_number = "0412345678"

-----------------------------------------------------------------------------
(* Claims about the redaction policies *)

Redacted == "redact" \in pii_done

RECURSIVE Rebuilt(_, _, _)
\* The text from offset pos on, with each match (in order of position)
\* replaced by its redacted_value and everything else copied.
Rebuilt(text, matches, pos) ==
    IF matches = <<>> THEN SubSeq(text, pos + 1, Len(text))
    ELSE SubSeq(text, pos + 1, Head(matches).start_pos)
           \o Head(matches).redacted_value
           \o Rebuilt(text, Tail(matches), Head(matches).end_pos)

\* C12: for every match redact retains with kind medicare_number the
\* replacement is the first 2 digits of the matched number followed by one
\* redaction_char per remaining digit; with kind phone_number it is one
\* redaction_char per digit but the last 3, followed by the last 3 digits; the
\* redacted text holds the replacement in place of the span, so no other digit
\* of the span appears in it.
C12_MedicareAndPhoneMasks ==
    Redacted =>
        /\ \A k \in 1..Len(redact_result.matches) :
              LET m == redact_result.matches[k]
                  d == DigitsOf(m.original_value)
                  n == Len(d)
              IN /\ m.pii_type = "medicare_number" =>
                      /\ n > 2
                      /\ m.redacted_value
                            = SubSeq(d, 1, 2) \o RepeatStr(redaction_char, n - 2)
                      /\ DigitsOf(m.redacted_value) = SubSeq(d, 1, 2)
                      /\ Len(m.redacted_value) = 2 + Len(redaction_char) * (n - 2)
                 /\ m.pii_type = "phone_number" =>
                      /\ n > 3
                      /\ m.redacted_value
                            = RepeatStr(redaction_char, n - 3) \o SubSeq(d, n - 2, n)
                      /\ DigitsOf(m.redacted_value) = SubSeq(d, n - 2, n)
                      /\ Len(m.redacted_value) = Len(redaction_char) * (n - 3) + 3
        /\ redact_result.redacted_text = Rebuilt(pii_text, redact_result.matches, 0)

\* Witness for C12: redact has rewritten a text with a retained
\* medicare_number match and a retained phone_number match.
C12_Witness ==
    /\ Redacted
    /\ \E j, k \in 1..Len(redact_result.matches) :
          /\ redact_result.matches[j].pii_type = "medicare_number"
          /\ redact_result.matches[k].pii_type = "phone_number"

\* C13: redaction is idempotent on its own output: for every text t,
\* redact(redact(t).text).text = redact(t).text: a second pass rewrites nothing.
C13_RedactIdempotent ==
    "redact_output" \in pii_done =>
        reredact_result.redacted_text = redact_result.redacted_text

-----------------------------------------------------------------------------
(* Claims about entity extraction and patient matching *)

\* C14: match_patient returns matched, confidence 0.95, the id PAT- followed
\* by the last 6 digits of the number, and the stored site, exactly when the
\* number is a key of the patient-history table; for an absent number and for
\* a number not in the table it returns not matched, confidence 0.0, no
\* patient id and no previous site.
C14_MatchPatient ==
    "match_patient" \in ext_done =>
        IF match_arg \in DOMAIN PATIENT_LOCATION_HISTORY
        THEN /\ match_result.matched
             /\ match_result.confidence = 95
             /\ match_result.patient_id
                  = "PAT-" \o SubSeq(match_arg, Len(match_arg) - 5, Len(match_arg))
             /\ match_result.previous_location = PATIENT_LOCATION_HISTORY[match_arg]
        ELSE /\ ~match_result.matched
             /\ match_result.confidence = 0
             /\ match_result.patient_id = PyNone
             /\ match_result.previous_location = PyNone

\* Witness for C14: a key of the table was matched to its patient id and site.
C14_Witness ==
    /\ "match_patient" \in ext_done
    /\ match_arg = "6789012345"
    /\ match_result.matched
    /\ match_result.patient_id = "PAT-012345"
    /\ match_result.previous_location = "harbour"

\* The transcript holds one of the phrases that are a valid number.
HasValidNumber(text) ==
    \E valid \in {"2345678901", "2345 67890 1", "61412345678"} : Contains(text, valid)

\* C15: whenever extract_medicare returns a number, it has 10 or 11 digits,
\* its first digit is one of 2..6, is_valid is true and the masked form is
\* XXXX XXXX X followed by the last 2 digits; when no candidate passes both
\* checks, number and masked form are absent and is_valid is false; a
\* candidate failing the first-digit check is skipped and a later valid one
\* is returned.
C15_ExtractMedicare ==
    "extract_medicare" \in ext_done =>
        LET number == ext_medicare.medicare_number
        IN /\ number # PyNone =>
                /\ Len(number) \in {10, 11}
                /\ \A k \in 1..Len(number) : CharAt(number, k) \in Digits
                /\ CharAt(number, 1) \in {"2", "3", "4", "5", "6"}
                /\ ext_medicare.is_valid
                /\ ext_medicare.medicare_masked
                     = "XXXX XXXX X" \o SubSeq(number, Len(number) - 1, Len(number))
           /\ number = PyNone =>
                /\ ext_medicare.medicare_masked = PyNone
                /\ ~ext_medicare.is_valid
           /\ (number # PyNone) <=> HasValidNumber(ext_text)
           /\ ext_text = "1234567890 2345678901" => number = "2345678901"
           /\ ext_text = "7345 67890 12 2345 67890 1" => number = "2345678901"

\* Witness for C15: a transcript whose first candidate has a wrong first digit
\* gave the valid number that follows it.
C15_Witness ==
    /\ "extract_medicare" \in ext_done
    /\ ext_text = "1234567890 2345678901"
    /\ ext_medicare.medicare_number = "2345678901"
    /\ ext_medicare.medicare_masked = "XXXX XXXX X01"

\* C16: the callback number phone extraction returns is the first match of
\* the first pattern, in the order spaced national form, international +61
\* form, compact mobile form, that matches anywhere in the transcript, with
\* every non-digit character of the matched text stripped, spaces and a
\* leading plus sign included; with no match there is no number.
C16_CallbackDigitsOnly ==
    "extract_phone" \in ext_done =>
        LET span(k) == Search(callback_patterns[k], ext_text, FALSE)
            hits == {k \in 1..Len(callback_patterns) : span(k) # <<>>}
        IN IF hits = {} THEN ext_phone[1] = PyNone
           ELSE LET first == CHOOSE k \in hits : \A j \in hits : k <= j
                    matched == SubSeq(ext_text, span(first)[1] + 1, span(first)[2])
                IN ext_phone[1] = DigitsOf(matched)

-----------------------------------------------------------------------------
(* Claims about the callback number and the escalation of a triaged record *)

\* The callback number of the current call: the number read from the
\* transcript, else the caller-supplied phone, else none.
ExpectedCallback ==
    LET extracted == _extract_phone_from_text(tri_voicemail.transcript)[1]
    IN IF Truthy(extracted) THEN extracted
       ELSE IF Truthy(tri_voicemail.caller_phone) THEN tri_voicemail.caller_phone
       ELSE PyNone

\* C17: the record's callback number is the number extracted from the
\* transcript whenever one is extracted, the caller-supplied phone only when
\* none is extracted, and absent when neither exists; the escalation receives
\* the same value as the patient phone, so an escalation is SMS_Alert_Only
\* exactly when neither a transcript phone nor a caller-supplied phone exists.
C17_CallbackFallback ==
    TriageReturned =>
        LET r == tri_record[1]
        IN /\ r.extracted_entities.callback_number = ExpectedCallback
           /\ r.escalation # None =>
                /\ (r.escalation[1].intervention_status = "SMS_Alert_Only"
                      <=> ExpectedCallback = PyNone)
                /\ (r.escalation[1].intervention_status = "Voice_Alert_Sent"
                      <=> ExpectedCallback # PyNone)
                /\ ExpectedCallback # PyNone =>
                      /\ escalation_log[Len(escalation_log)].type = "voice_alert"
                      /\ escalation_log[Len(escalation_log)].recipient = ExpectedCallback
                /\ ExpectedCallback = PyNone =>
                      escalation_log[Len(escalation_log)].type = "sms"

\* Witness for C17: a transcript with a phone number, submitted with a
\* different caller phone, was escalated; the record and the voice alert
\* carry the transcript's number.
C17_Witness ==
    /\ TriageReturned
    /\ tri_voicemail.transcript = "call me on 0412 345 678"
    /\ tri_voicemail.caller_phone = "+61412345678"
    /\ tri_record[1].escalation # None
    /\ tri_record[1].extracted_entities.callback_number = "0412345678"
    /\ escalation_log[Len(escalation_log)].recipient = "0412345678"

\* C18: every record triage produces with urgency level 5 carries escalation
\* info with escalation_triggered true, an intervention status other than
\* None and at least the manager notification in actions_taken; every record
\* it produces with a level below 4 carries no escalation info.
C18_LevelFiveEscalates ==
    TriageReturned =>
        LET r == tri_record[1]
        IN /\ r.urgency.level = 5 =>
                /\ r.escalation # None
                /\ r.escalation[1].escalation_triggered
                /\ r.escalation[1].intervention_status # "None"
                /\ \E k \in 1..Len(r.escalation[1].actions_taken) :
                      r.escalation[1].actions_taken[k] = "SMS_Alert_Sent_To_Manager"
           /\ r.urgency.level < 4 => r.escalation = None

\* Witness for C18: an answer with level 9 gave a record with level 5 and
\* escalation info, after an answer with level 0 had given a record without.
C18_Witness ==
    /\ TriageReturned
    /\ tri_count = 2
    /\ Contains(tri_response, "\"level\":9")
    /\ tri_record[1].urgency.level = 5
    /\ tri_record[1].escalation # None
    /\ Len(escalation_log) = 1

\* The entries of the escalation log of one type for one voicemail.
LogEntries(log, voicemail_id, type) ==
    {i \in 1..Len(log) : log[i].voicemail_id = voicemail_id /\ log[i].type = type}

\* A step is fire-once: every voicemail has at most one manager notification
\* and one voice alert in the log; the log grows only when a triage call
\* returns, by at most one entry of each type, for that call's voicemail; a
\* handler call on a stored record leaves the log and every record's
\* escalation (status, timestamp, actions) as they were.
FireOnceStep ==
    /\ \A voicemail_id \in StoreIds, type \in {"sms", "voice_alert"} :
          Cardinality(LogEntries(escalation_log', voicemail_id, type)) <= 1
    /\ escalation_log' # escalation_log =>
          /\ tri_pc = "awaiting_llm"
          /\ tri_pc' = "returned"
          /\ Len(escalation_log') \in Len(escalation_log) + 1 .. Len(escalation_log) + 2
          /\ SubSeq(escalation_log', 1, Len(escalation_log)) = escalation_log
          /\ \A i \in Len(escalation_log) + 1 .. Len(escalation_log') :
                escalation_log'[i].voicemail_id = tri_id
    /\ store_ops' # store_ops =>
          /\ escalation_log' = escalation_log
          /\ DOMAIN voicemail_store' = DOMAIN voicemail_store
          /\ \A voicemail_id \in DOMAIN voicemail_store :
                voicemail_store'[voicemail_id].escalation
                    = voicemail_store[voicemail_id].escalation

\* The stored record whose reminder count a step changes differs from the old
\* one in the given fields only, and the count went up by one.
ReminderTouchesOnly(fields) ==
    \A voicemail_id \in DOMAIN voicemail_store :
        LET old == voicemail_store[voicemail_id]
            new == voicemail_store'[voicemail_id]
        IN (voicemail_id \in DOMAIN voicemail_store'
              /\ new.escalation_reminder_count # old.escalation_reminder_count) =>
             /\ new.escalation_reminder_count = old.escalation_reminder_count + 1
             /\ \A f \in DOMAIN old \ fields : new[f] = old[f]

\* C19 (as stated): escalation is fire-once per triage event, no later
\* operation on the stored record (send-reminder, acknowledge-escalation,
\* update) notifies again, appends to the escalation log or changes the
\* record's intervention status, escalation timestamp or actions_taken, and a
\* reminder changes nothing but the reminder count.
C19_ReminderOnlyCount ==
    [][FireOnceStep /\ ReminderTouchesOnly({"escalation_reminder_count"})]_vars

\* C19 (amended): escalation is fire-once per triage event and no later
\* operation on the stored record notifies again, appends to the escalation
\* log or changes the record's escalation; a reminder increments the reminder
\* count and stamps escalation_last_reminder_at, and changes nothing else.
C19_FireOnce ==
    [][FireOnceStep
         /\ ReminderTouchesOnly({"escalation_reminder_count",
                                 "escalation_last_reminder_at"})]_vars

\* An escalated triage record has been stored, reminded once and acknowledged,
\* and its two notifications are the only entries of the log.
C19_Witness ==
    /\ "vm_1" \in DOMAIN voicemail_store
    /\ voicemail_store["vm_1"].escalation # None
    /\ voicemail_store["vm_1"].escalation[1].intervention_status = "Voice_Alert_Sent"
    /\ voicemail_store["vm_1"].escalation_reminder_count = 1
    /\ voicemail_store["vm_1"].escalation_acknowledged
    /\ Cardinality(LogEntries(escalation_log, "vm_1", "sms")) = 1
    /\ Cardinality(LogEntries(escalation_log, "vm_1", "voice_alert")) = 1
    /\ Len(escalation_log) = 2

\* C20: no core operation modifies mutable state shared between calls: the
\* state a later call can see, here the escalation singleton's log, is the
\* same before and after every call of process_escalation.
C20_NoSharedStateChange ==
    [][esc_args' # esc_args \/ esc_result' # esc_result
         => escalation_log' = escalation_log]_vars

-----------------------------------------------------------------------------
(* Claims about overlap resolution and the rewrite *)

SpanLen(m) == m.end_pos - m.start_pos

\* Candidate c is accounted for by the retained matches: it is one of them, or
\* it overlaps a retained match that starts at or before it and, when both
\* start at the same offset, is at least as long.
CoveredBy(c, retained) ==
    \/ \E k \in 1..Len(retained) : retained[k] = c
    \/ \E k \in 1..Len(retained) :
          /\ retained[k].start_pos <= c.start_pos
          /\ Overlap(retained[k], c)
          /\ retained[k].start_pos = c.start_pos => SpanLen(retained[k]) >= SpanLen(c)

\* The retained matches are candidates, every candidate is accounted for, and
\* a candidate of the least (start, -length) key is retained, first.
MaximalCover(candidates, retained) ==
    /\ \A k \in 1..Len(retained) : \E j \in 1..Len(candidates) : candidates[j] = retained[k]
    /\ \A j \in 1..Len(candidates) : CoveredBy(candidates[j], retained)
    /\ candidates # <<>> =>
          /\ retained # <<>>
          /\ \A j \in 1..Len(candidates) :
                \/ retained[1].start_pos < candidates[j].start_pos
                \/ /\ retained[1].start_pos = candidates[j].start_pos
                   /\ SpanLen(retained[1]) >= SpanLen(candidates[j])

RECURSIVE SumOver(_, _, _)
\* The total span length, or replacement length, of the matches from index k on.
SumOver(matches, k, kind) ==
    IF k > Len(matches) THEN 0
    ELSE (IF kind = "span" THEN SpanLen(matches[k]) ELSE Len(matches[k].redacted_value))
           + SumOver(matches, k + 1, kind)

\* C22: redact rewrites only the retained spans: the redacted text is the
\* original text with each retained span replaced by its match's replacement
\* and every character outside the spans kept in order, whatever the lengths
\* of the replacements; with no retained match the text is returned unchanged
\* with an empty match list.
C22_RewriteOnlySpans ==
    Redacted =>
        LET ms == redact_result.matches
            out == redact_result.redacted_text
        IN /\ Detected => ms = pii_matches
           /\ out = Rebuilt(pii_text, ms, 0)
           /\ Len(out) = Len(pii_text) - SumOver(ms, 1, "span") + SumOver(ms, 1, "replacement")
           /\ ms # <<>> =>
                 /\ SubSeq(out, 1, ms[1].start_pos) = SubSeq(pii_text, 1, ms[1].start_pos)
                 /\ LET last == ms[Len(ms)]
                        rest == Len(pii_text) - last.end_pos
                    IN SubSeq(out, Len(out) - rest + 1, Len(out))
                         = SubSeq(pii_text, last.end_pos + 1, Len(pii_text))
           /\ ms = <<>> => out = pii_text

\* Witness for C22: redact has replaced two spans, the first by a text of
\* another length than the span, so the second span's offsets differ
\* between the original and the redacted text.
C22_Witness ==
    /\ Redacted
    /\ Len(redact_result.matches) >= 2
    /\ Len(redact_result.matches[1].redacted_value) # SpanLen(redact_result.matches[1])
    /\ redact_result.redacted_text # pii_text

\* Witness for C22, no match: redact has returned a text without PII as it was.
C22_WitnessUnchanged ==
    /\ Redacted
    /\ pii_text # ""
    /\ redact_result.matches = <<>>
    /\ redact_result.redacted_text = pii_text

-----------------------------------------------------------------------------
(* Claims about mention detection and the agreement of routing and matching *)

\* Directory entry i has an alias that occurs in the lower-cased transcript.
EntryHit(directory, field, i) ==
    \E k \in 1..Len(directory[i][field]) :
        Contains(ToLower(route_args.transcript), directory[i][field][k])

\* i is the first entry of the directory with an alias in the transcript.
FirstHit(directory, field, i) ==
    /\ EntryHit(directory, field, i)
    /\ \A j \in 1..(i - 1) : ~EntryHit(directory, field, j)

\* C23: site and clinician mention detection return the first directory
\* entry, in directory order, that has an alias occurring as a
\* case-insensitive substring of the transcript, wherever the aliases occur
\* and however long they are; with no alias in the transcript the result is
\* absent; for a clinician the result is the display name and the home site.
C23_FirstEntryWins ==
    /\ location_result # NotCalled =>
          /\ \A i \in 1..Len(CLINIC_LOCATIONS) :
                FirstHit(CLINIC_LOCATIONS, "keywords", i)
                    => location_result = CLINIC_LOCATIONS[i].id
          /\ (\A i \in 1..Len(CLINIC_LOCATIONS) : ~EntryHit(CLINIC_LOCATIONS, "keywords", i))
                => location_result = PyNone
          /\ route_args.transcript \in {"northwest", "northwest harbour", "the BAY clinic northwest"}
                => location_result = IF route_args.transcript = "northwest"
                                     THEN "sunset" ELSE "harbour"
    /\ doctor_result # NoDoctorCall =>
          /\ \A i \in 1..Len(KNOWN_DOCTORS) :
                FirstHit(KNOWN_DOCTORS, "aliases", i)
                    => doctor_result = <<KNOWN_DOCTORS[i].name, KNOWN_DOCTORS[i].location>>
          /\ (\A i \in 1..Len(KNOWN_DOCTORS) : ~EntryHit(KNOWN_DOCTORS, "aliases", i))
                => doctor_result = <<PyNone, PyNone>>
          /\ route_args.transcript \in {"thompson Sarah Chen", "Sarah Chen thompson", "Dr Wong kitchen"}
                => doctor_result = <<"Dr. Sarah Chen", "harbour">>

\* Witness for C23: aliases of two sites occur inside one word, the later
\* directory entry's first in the text, next to a clinician's name; the site
\* detection has returned the earlier directory entry and the clinician
\* detection the clinician with the home site.
C23_Witness ==
    /\ route_args.transcript = "northwest Sarah Chen"
    /\ doctor_result = <<"Dr. Sarah Chen", "harbour">>
    /\ location_result = "sunset"

\* C24: when route_voicemail ends in the unassigned tier for a transcript in
\* which a clinician mention was detected, the result still reports that
\* clinician in mentioned_doctor, with no assigned site and confidence 0.0.
C24_UnassignedReportsClinician ==
    (Routed /\ route_result.routing_reason = "unassigned" /\ HasClinician) =>
        /\ route_result.mentioned_doctor = extract_doctor(route_args.transcript)[1]
        /\ route_result.assigned_location = PyNone
        /\ route_result.confidence = 0

\* C24, its case: every entry of KNOWN_DOCTORS has a home site, so a
\* transcript with a clinician mention is never routed as unassigned.
C24_CaseNeverArises ==
    (Routed /\ route_result.routing_reason = "unassigned") =>
        /\ ~HasClinician
        /\ route_result.mentioned_doctor = PyNone

-----------------------------------------------------------------------------
(* Claims about the cue phrases of dates and names *)

StartsWith(str, prefix) == Len(prefix) <= Len(str) /\ SubSeq(str, 1, Len(prefix)) = prefix

MonthNames ==
    {"january", "february", "march", "april", "may", "june", "july", "august",
     "september", "october", "november", "december"}

\* The offset at which the date of a date-of-birth match starts: its first
\* digit or month name.
DateStart(value) ==
    Min({i \in 0..Len(value) :
            \/ i = Len(value)
            \/ CharAt(value, i + 1) \in Digits
            \/ \E month \in MonthNames :
                  StartsWith(ToLower(SubSeq(value, i + 1, Len(value))), month)})

\* The cue phrases of a name the claim lists, lower-cased, with the space
\* that ends them.
NameCues ==
    {"my name is ", "this is ", "i'm ", "i am ",
     "mr ", "mr. ", "mrs ", "mrs. ", "ms ", "ms. ", "dr ", "dr. ", "miss "}

\* C25: for every retained date-of-birth or person-name match that begins
\* with a cue phrase the detection pattern accepts (dates: date of birth, DOB,
\* d.o.b., born on, birthday, with optional "is" or colon; names: my name is,
\* this is, I'm, I am, or a title) the replacement is that cue phrase exactly
\* as it appeared in the text followed by [DOB REDACTED] or [NAME REDACTED];
\* a bare date is replaced by [DOB REDACTED] alone.
C25_CuePreserved ==
    Redacted =>
        \A k \in 1..Len(redact_result.matches) :
            LET m == redact_result.matches[k]
                v == m.original_value
            IN /\ m.pii_type = "date_of_birth" =>
                    m.redacted_value = SubSeq(v, 1, DateStart(v)) \o "[DOB REDACTED]"
               /\ m.pii_type = "name" =>
                    \A cue \in NameCues :
                        StartsWith(ToLower(v), cue) =>
                            \E longest \in NameCues :
                                /\ StartsWith(ToLower(v), longest)
                                /\ m.redacted_value
                                      = SubSeq(v, 1, Len(longest)) \o "[NAME REDACTED]"

-----------------------------------------------------------------------------
(* Claims about the written forms of a health-identifier number *)

\* The forms in which a number of 10 or 11 digits is written: contiguous,
\* grouped 4+5+1/2 with spaces, grouped 4+5+1/2 with dashes.
WrittenForms(digits) ==
    {digits,
     SubSeq(digits, 1, 4) \o " " \o SubSeq(digits, 5, 9) \o " " \o SubSeq(digits, 10, Len(digits)),
     SubSeq(digits, 1, 4) \o "-" \o SubSeq(digits, 5, 9) \o "-" \o SubSeq(digits, 10, Len(digits))}

\* The digits pass the length and the first-digit check.
ValidDigits(digits) ==
    /\ Len(digits) \in {10, 11}
    /\ CharAt(digits, 1) \in {"2", "3", "4", "5", "6"}

\* C26: health-identifier extraction accepts the same written forms as the
\* redaction pass: for a number whose digits pass the length and first-digit
\* checks extract_medicare returns the same digit string whether the number
\* is written contiguously, grouped with spaces or grouped with dashes;
\* hence every span the redaction pass retains as a health-identifier with a
\* valid leading digit is also extracted.
C26_SameWrittenForms ==
    "extract_medicare" \in ext_done =>
        /\ \A digits \in {"2345678901", "23456789011"} :
              ext_text \in WrittenForms(digits) => ext_medicare.medicare_number = digits
        /\ Let(detect_pii(ext_text),
               LAMBDA retained :
                 \A k \in 1..Len(retained) :
                    (retained[k].pii_type = "medicare_number"
                       /\ ValidDigits(DigitsOf(retained[k].original_value)))
                      => ext_medicare.is_valid)

-----------------------------------------------------------------------------
(* Claims about concurrent triage calls *)

\* A record without its generated id and its timestamps.
WithoutIdAndTimes(record) ==
    IF record = None THEN None
    ELSE Some([record[1] EXCEPT
                 !.voicemail_id = "",
                 !.created_at = 0,
                 !.processed_at = 0,
                 !.escalation = IF @ = None THEN None
                                ELSE Some([@[1] EXCEPT !.timestamp_escalated = 0])])

\* What triage gives for the call's voicemail and answer when it runs
\* alone, on a service nothing else has used.
Alone(call) ==
    TriageAfterAnswer(<<>>, "vm_alone", calls[call].voicemail,
                      redact(calls[call].voicemail.transcript),
                      calls[call].response, 0)

\* C27: when several transcripts are triaged concurrently, under every
\* interleaving at the classifier suspension point the record produced for
\* each transcript, apart from its generated id and timestamps, equals the
\* record produced when the transcript is triaged alone: redacted text,
\* entities, routing, patient match and escalation never depend on another
\* call.
C27_ConcurrentEqualsAlone ==
    \A call \in Calls :
        (calls[call].pc \in {"returned", "raised"} /\ calls[call].response # PyNone) =>
            Let(Alone(call), LAMBDA alone :
                /\ calls[call].raised = alone.raised
                /\ WithoutIdAndTimes(calls[call].record) = WithoutIdAndTimes(alone.record))

\* Witness for C27: two calls with different transcripts were suspended at
\* the same time, the second was answered first, and both were escalated.
C27_Witness ==
    /\ \A call \in Calls : calls[call].pc = "returned"
    /\ calls[1].voicemail.transcript # calls[2].voicemail.transcript
    /\ calls[1].record[1].escalation # None
    /\ calls[2].record[1].escalation # None
    /\ calls[1].record[1].patient_match # calls[2].record[1].patient_match
    /\ Len(escalation_log) >= 3
    /\ escalation_log[1].voicemail_id = "vm_2"

-----------------------------------------------------------------------------
(* Claims about candidates of different kinds on one span *)

\* The place of a kind in the scan order of detect_pii.
ScanRank(pii_type) ==
    CASE pii_type = "medicare_number" -> 1
      [] pii_type = "phone_number" -> 2
      [] pii_type = "email" -> 3
      [] pii_type = "date_of_birth" -> 4
      [] pii_type = "credit_card" -> 5
      [] pii_type = "address" -> 6
      [] pii_type = "name" -> 7

SameSpan(a, b) == a.start_pos = b.start_pos /\ a.end_pos = b.end_pos

\* C28: when two candidates of different kinds cover exactly the same span,
\* the one retained is the kind scanned first in the order health-identifier,
\* phone, email, date-of-birth, payment-card, address, name; a contiguous
\* 10-digit mobile number that also fits the health-identifier pattern is
\* retained as a health-identifier and redacted by the first-2-digits policy,
\* not the last-3-digits phone policy.
C28_FirstScannedKindWins ==
    JustDetected =>
        /\ Let(Candidates(pii_text), LAMBDA found :
              \A k \in 1..Len(pii_matches), j \in 1..Len(found) :
                  (SameSpan(pii_matches[k], found[j])
                     /\ found[j].pii_type # pii_matches[k].pii_type)
                    => ScanRank(pii_matches[k].pii_type) < ScanRank(found[j].pii_type))
        /\ \A k \in 1..Len(pii_matches) :
              pii_matches[k].original_value = "0412345678" =>
                  /\ pii_matches[k].pii_type = "medicare_number"
                  /\ pii_matches[k].redacted_value = "04" \o RepeatStr(redaction_char, 8)

\* Witness for C28: the text is a contiguous mobile number, a candidate of
\* both kinds on the same span, and the health-identifier was retained.
C28_Witness ==
    /\ Detected
    /\ pii_text = "0412345678"
    /\ LET c == Candidates(pii_text)
       IN \E i, j \in 1..Len(c) :
             /\ c[i].pii_type = "medicare_number"
             /\ c[j].pii_type = "phone_number"
             /\ SameSpan(c[i], c[j])
    /\ Len(pii_matches) = 1
    /\ pii_matches[1].pii_type = "medicare_number"

-----------------------------------------------------------------------------
(* Claims about routing and patient matching on one number *)

BothCalled == Routed /\ match_arg = route_args.medicare_number

\* C29: routing and patient match agree for every transcript and medicare
\* number: if route_voicemail returns reason patient_history then
\* match_patient on the same number is matched and its previous site is the
\* assigned site; if match_patient is matched then route_voicemail does not
\* return unassigned, so a record never carries a patient match without a
\* location assignment.
C29_RoutingAgreesWithMatch ==
    BothCalled =>
        /\ route_result.routing_reason = "patient_history" =>
              /\ match_result.matched
              /\ match_result.previous_location = route_result.assigned_location
        /\ match_result.matched =>
              /\ route_result.routing_reason # "unassigned"
              /\ route_result.assigned_location # PyNone
        /\ PatientMatchInfo(match_result) # None => LocationInfo(route_result) # None

\* Witness for C29: a transcript that names no site and no clinician was
\* routed by the history of a known number, and the same number was matched.
C29_Witness ==
    /\ BothCalled
    /\ ~HasSite /\ ~HasClinician
    /\ route_result.routing_reason = "patient_history"
    /\ match_result.matched
    /\ PatientMatchInfo(match_result) # None

\* A matched number whose transcript names a site: routing is decided by the
\* site, not by the history.
C29_WitnessOtherTier ==
    /\ BothCalled
    /\ match_result.matched
    /\ route_result.routing_reason = "location_mentioned"
    /\ route_result.assigned_location # match_result.previous_location

-----------------------------------------------------------------------------
(* Claims about the rule-based stand-in classifier *)

MockAnswered == mock_result # PyNone

\* A keyword of one of the lists of the table occurs in the input, in any case.
KeywordOccurs(table) ==
    \E l \in 1..Len(table) : \E k \in 1..Len(table[l]) :
        Contains(ToLower(mock_text), table[l][k])

\* The urgency level and the intent written in the returned JSON text.
MockLevel(answer) == answer.value.v["urgency"].v["level"].v

MockIntentOf(answer) == answer.value.v["intent"].v

\* C30: the rule-based stand-in classifier returns urgency level 5 exactly
\* when an emergency keyword of any supported language occurs in its input,
\* and intent Emergency exactly when it returns level 5; otherwise it returns
\* level 4 if a high-priority keyword occurs and level 3 if not. It never
\* returns level 4 together with intent Emergency, its urgency is always in
\* 3..5, and its intent is always in the enumerated set.
C30_MockClassifier ==
    MockAnswered =>
        Let(json_loads(mock_result), LAMBDA answer :
            /\ answer.raised = PyNone
            /\ MockLevel(answer) = 5 <=> KeywordOccurs(emergency_keywords)
            /\ MockIntentOf(answer) = "Emergency" <=> MockLevel(answer) = 5
            /\ ~KeywordOccurs(emergency_keywords) =>
                  MockLevel(answer) = IF KeywordOccurs(high_priority_keywords) THEN 4 ELSE 3
            /\ ~(MockLevel(answer) = 4 /\ MockIntentOf(answer) = "Emergency")
            /\ MockLevel(answer) \in 3..5
            /\ MockIntentOf(answer) \in valid_intents)

\* Witness for C30: the input holds an emergency keyword and a high-priority
\* keyword ("pain" inside "chest pain"), and the answer is level 5, Emergency.
C30_Witness ==
    /\ MockAnswered
    /\ mock_text = "chest pain"
    /\ KeywordOccurs(emergency_keywords) /\ KeywordOccurs(high_priority_keywords)
    /\ MockLevel(json_loads(mock_result)) = 5
    /\ MockIntentOf(json_loads(mock_result)) = "Emergency"

\* A Vietnamese emergency in capitals inside the user message of triage.
C30_WitnessVietnamese ==
    /\ MockAnswered
    /\ mock_text = user_message("{D-}AU NG{U+.}C")
    /\ Let(json_loads(mock_result), LAMBDA answer :
           /\ MockLevel(answer) = 5
           /\ answer.value.v["language_code"].v = "vi")

\* A high-priority keyword and no emergency keyword: level 4, not Emergency.
C30_WitnessHighPriority ==
    /\ MockAnswered
    /\ mock_text = "it is urgent"
    /\ MockLevel(json_loads(mock_result)) = 4
    /\ MockIntentOf(json_loads(mock_result)) = "Other"

\* No keyword at all: level 3.
C30_WitnessRoutine ==
    /\ MockAnswered
    /\ mock_text = "hello there"
    /\ MockLevel(json_loads(mock_result)) = 3

====
